---- MODULE Spec2Model ----
(***************************************************************************)
(* GuardianVault: the coordination server's signing state machine          *)
(* (coordination-server/app) together with the threshold ECDSA arithmetic  *)
(* it runs (guardianvault/threshold_signing.py, mpc_keymanager.py).        *)
(*                                                                         *)
(* The elliptic curve is y^2 = x^3 + 7 as in the source; the field prime   *)
(* and the group order are scaled down to the smallest pair that keeps the *)
(* properties the code relies on: p = 3 (mod 4) (the square root in        *)
(* from_bytes), a prime group order n < p, and no point whose x is 0       *)
(* modulo n.                                                               *)
(***************************************************************************)
EXTENDS Integers, FiniteSets, Sequences, TLC

\* ------------------------------------------------------------------------
\* Curve parameters (mpc_keymanager.py:27-30), scaled down.
\* ------------------------------------------------------------------------
SECP256K1_P == 43
SECP256K1_N == 31
SECP256K1_GX == 2
SECP256K1_GY == 12

Scalars == 0 .. (SECP256K1_N - 1)

\* pow(b, e, m) for e >= 0
RECURSIVE ModPow(_, _, _)
ModPow(b, e, m) ==
    IF e = 0 THEN 1 % m
    ELSE LET h == ModPow(b, e \div 2, m)
             sq == (h * h) % m
         IN IF e % 2 = 1 THEN (sq * (b % m)) % m ELSE sq

\* pow(a, -1, m) is defined when a is invertible modulo m; Python raises
\* ValueError otherwise.
HasInverse(a, m) == \E b \in 1 .. (m - 1) : ((a % m) * b) % m = 1
ModInv(a, m) == CHOOSE b \in 1 .. (m - 1) : ((a % m) * b) % m = 1

\* EllipticCurvePoint: (x, y) or the point at infinity (x = y = None).
Infinity == [inf |-> TRUE, x |-> 0, y |-> 0]
Point(px, py) == [inf |-> FALSE, x |-> px, y |-> py]
Generator == Point(SECP256K1_GX, SECP256K1_GY)

OnCurve(pt) ==
    pt.inf \/ (pt.y * pt.y) % SECP256K1_P
                = (pt.x * pt.x * pt.x + 7) % SECP256K1_P

\* EllipticCurvePoint.__add__
PointAdd(a, b) ==
    IF a.inf THEN b
    ELSE IF b.inf THEN a
    ELSE IF a.x = b.x /\ a.y # b.y THEN Infinity
    ELSE LET s == IF a.x = b.x
                  THEN (3 * a.x * a.x * ModInv(2 * a.y, SECP256K1_P))
                           % SECP256K1_P
                  ELSE ((b.y - a.y + SECP256K1_P)
                           * ModInv(b.x - a.x + SECP256K1_P, SECP256K1_P))
                           % SECP256K1_P
             x3 == (s * s + 2 * SECP256K1_P - a.x - b.x) % SECP256K1_P
             y3 == (s * (a.x + SECP256K1_P - x3) + SECP256K1_P - a.y)
                       % SECP256K1_P
         IN Point(x3, y3)

\* EllipticCurvePoint.__mul__: double-and-add, least significant bit first
RECURSIVE MulLoop(_, _, _)
MulLoop(result, addend, scalar) ==
    IF scalar = 0 THEN result
    ELSE MulLoop(IF scalar % 2 = 1 THEN PointAdd(result, addend) ELSE result,
                 PointAdd(addend, addend), scalar \div 2)

PointMul(pt, scalar) ==
    IF scalar = 0 \/ pt.inf THEN Infinity ELSE MulLoop(Infinity, pt, scalar)

\* k * G for every scalar, computed once
RECURSIVE GTableUpTo(_)
GTableUpTo(k) ==
    IF k = 0 THEN (0 :> PointMul(Generator, 0))
    ELSE GTableUpTo(k - 1) @@ (k :> PointMul(Generator, k))
GTable == GTableUpTo(SECP256K1_N - 1)

\* The points of the group generated by G, and a + b for every two of them,
\* computed once
CurvePoints == {GTable[k] : k \in Scalars}
RECURSIVE PointAddRow(_, _)
PointAddRow(a, points) ==
    IF points = {} THEN <<>>
    ELSE LET b == CHOOSE b \in points : TRUE
         IN (b :> PointAdd(a, b)) @@ PointAddRow(a, points \ {b})
RECURSIVE PointAddRows(_)
PointAddRows(points) ==
    IF points = {} THEN <<>>
    ELSE LET a == CHOOSE a \in points : TRUE
         IN (a :> PointAddRow(a, CurvePoints)) @@ PointAddRows(points \ {a})
PointAddTable == PointAddRows(CurvePoints)
Add(a, b) ==
    IF a \in CurvePoints /\ b \in CurvePoints THEN PointAddTable[a][b]
    ELSE PointAdd(a, b)

\* EllipticCurvePoint.to_bytes(compressed=True): <<0>> for infinity,
\* <<2, x>> or <<3, x>> by the parity of y.
ToBytes(pt) ==
    IF pt.inf THEN <<0>>
    ELSE <<(IF pt.y % 2 = 0 THEN 2 ELSE 3), pt.x>>

\* EllipticCurvePoint.from_bytes: the prefix selects the format; any other
\* prefix raises ValueError("Invalid point encoding").  Neither format
\* checks that the result satisfies the curve equation.
ValidEncoding(data) == data[1] \in {2, 3, 4}
FromBytes(data) ==
    IF data[1] = 4 THEN Point(data[2], data[3])
    ELSE LET y_squared == (ModPow(data[2], 3, SECP256K1_P) + 7) % SECP256K1_P
             y0 == ModPow(y_squared, (SECP256K1_P + 1) \div 4, SECP256K1_P)
             y == IF (y0 % 2 = 0) # (data[1] = 2) THEN SECP256K1_P - y0 ELSE y0
         IN Point(data[2], y)

\* from_bytes of every compressed encoding, computed once
RECURSIVE FromBytesRows(_)
FromBytesRows(encodings) ==
    IF encodings = {} THEN <<>>
    ELSE LET d == CHOOSE d \in encodings : TRUE
         IN (d :> FromBytes(d)) @@ FromBytesRows(encodings \ {d})
FromBytesTable ==
    FromBytesRows({<<prefix, x>> : prefix \in {2, 3},
                                  x \in 0 .. (SECP256K1_P - 1)})
Decode(data) ==
    IF data \in DOMAIN FromBytesTable THEN FromBytesTable[data]
    ELSE FromBytes(data)


\* ------------------------------------------------------------------------
\* Threshold ECDSA arithmetic (guardianvault/threshold_signing.py)
\* ------------------------------------------------------------------------

\* sign_round3_compute_signature_share: s_i = k^-1 * (z/n + r*x_i) mod N.
\* pow(k_total, -1, N) and pow(num_parties, -1, N) raise when the value has
\* no inverse; CanSignRound3 is the condition under which neither raises.
CanSignRound3(k_total, num_parties) ==
    HasInverse(k_total, SECP256K1_N) /\ HasInverse(num_parties, SECP256K1_N)

\* Variant: every party adds the whole digest z instead of z / num_parties.
SignRound3WithoutSplit(x_i, z, r, k_total, num_parties) ==
    (ModInv(k_total, SECP256K1_N) * (z + r * x_i)) % SECP256K1_N

SignRound3(x_i, z, r, k_total, num_parties) ==
    LET k_inv == ModInv(k_total, SECP256K1_N)
        z_share == (z * ModInv(num_parties, SECP256K1_N)) % SECP256K1_N
    IN (k_inv * (z_share + r * x_i)) % SECP256K1_N

\* Variant: s is kept as summed.
LowSKeep(s) == s

\* The low-S rule (BIP62) of round 4: s > N // 2 is replaced by N - s.
LowS(s) == IF s > SECP256K1_N \div 2 THEN SECP256K1_N - s ELSE s

\* Sum of f[e] over the elements e of set S, modulo N
RECURSIVE SumMod(_, _)
SumMod(f, S) ==
    IF S = {} THEN 0
    ELSE LET e == CHOOSE e \in S : TRUE
         IN (f[e] + SumMod(f, S \ {e})) % SECP256K1_N

\* Sum of the points f[e], e in S (the loop "combined = combined + r_point")
RECURSIVE SumPoints(_, _)
SumPoints(f, S) ==
    IF S = {} THEN Infinity
    ELSE LET e == CHOOSE e \in S : TRUE
         IN Add(SumPoints(f, S \ {e}), f[e])

\* The loop raises ValueError when it doubles a point whose 2y has no
\* inverse modulo p (pow(2 * y, -1, p) in __add__); no point of the curve
\* is such a point.
RECURSIVE SumRaises(_, _)
SumRaises(f, S) ==
    IF S = {} THEN FALSE
    ELSE LET e == CHOOSE e \in S : TRUE
         IN \/ SumRaises(f, S \ {e})
            \/ LET acc == SumPoints(f, S \ {e}) IN
               /\ ~acc.inf /\ ~f[e].inf
               /\ acc.x = f[e].x /\ acc.y = f[e].y
               /\ ~HasInverse(2 * acc.y, SECP256K1_P)

\* ThresholdSigner.verify_signature(public_key, message_hash, signature)
VerifySignature(public_key, z, r, s) ==
    IF ~(1 <= r /\ r < SECP256K1_N /\ 1 <= s /\ s < SECP256K1_N) THEN FALSE
    ELSE LET w == ModInv(s, SECP256K1_N)
             u1 == (z * w) % SECP256K1_N
             u2 == (r * w) % SECP256K1_N
             pnt == PointAdd(PointMul(Generator, u1),
                             PointMul(FromBytes(public_key), u2))
         IN ~pnt.inf /\ r = pnt.x % SECP256K1_N


\* ------------------------------------------------------------------------
\* Bounds and input sets
\* ------------------------------------------------------------------------
GuardianIds == {"g1", "g2", "g3"}
TxIds == {"tx1"}
\* The ids of the runs in which two transactions are signed side by side
AllTxIds == {"tx1", "tx2"}
VaultId == "v1"

\* (threshold, total_guardians) of the vault; create_vault accepts every
\* pair with 2 <= threshold <= total_guardians.
VaultShapes == {<<2, 2>>, <<2, 3>>}

\* The guardians of a vault with n share slots, in share_id order
Members(n) == IF n = 2 THEN {"g1", "g2"} ELSE GuardianIds

\* The guardians that hold a socket to the coordinator during a run; a
\* member outside this set is offline and sends nothing.
Connected == {"g1", "g2"}

\* Nonce shares a guardian may draw in round 1 (3 + 28 = 0 mod N), message
\* digests a client may request, key-share vectors of the guardians, and
\* values a client may send as a round-3 share besides the computed one.
NonceChoices == {3, 28}
MessageHashes == {5}
ShareVectors ==
    { [g \in GuardianIds |-> CASE g = "g1" -> 4 [] g = "g2" -> 11 [] OTHER -> 20],
      [g \in GuardianIds |-> CASE g = "g1" -> 30 [] g = "g2" -> 19 [] OTHER -> 7] }
JunkShares == {0}
PatchStatuses == {"pending", "completed"}

\* How many requests (round-1 and round-3 submissions, cancel, PATCH) are
\* sent to the coordinator in all.
MaxCalls == 4

\* TransactionStatus (models/transaction.py)
TerminalStatuses == {"completed", "failed", "cancelled"}

NoRound2 == [present |-> FALSE, kTotal |-> 0, r |-> 0, R_combined |-> <<0>>]
NoSignature == [present |-> FALSE, r |-> 0, s |-> 0]
\* A handler in flight: which request, where it is, and the values it
\* computed from its last read and has yet to write.
Idle == [op |-> "idle", pc |-> "idle", tx |-> "tx1",
         round2 |-> NoRound2, signature |-> NoSignature,
         guardian |-> "g1", share_id |-> 0]
\* Clients of the HTTP API; each has at most one request in flight
HttpClients == {"admin", "admin2"}
Callers == GuardianIds \cup HttpClients

VARIABLES
    vault,          \* the vault document
    shares,         \* guardian -> its key share x_i (known to the guardian only)
    transactions,   \* transaction_id -> transaction document
    handlers,       \* caller -> the request handler it has in flight
    emitted,        \* transaction_id -> broadcasts sent to the vault room
    writes,         \* transaction_id -> how often round2_data was written
    calls,          \* requests sent so far, by kind
    clients,        \* guardian -> state of its signing client
    alg,            \* inputs and results of the signing arithmetic alone
    now,            \* the server's clock (datetime.utcnow), in seconds
    refused,        \* the error answers the server has given so far
    guardians,      \* guardian_id -> guardian document
    sessions        \* the socket.io sessions and the presence events sent

vars == <<vault, shares, transactions, handlers, emitted, writes, calls,
          clients, alg, now, refused, guardians, sessions>>

Created == DOMAIN transactions

\* settings.transaction_timeout (config.py: 3600 seconds), scaled down
TransactionTimeout == 2
TotalCalls == calls.round1 + calls.round3 + calls.admin

\* Transaction(...) as create_transaction builds it (models/transaction.py
\* defaults for the fields it does not pass)
NewTransaction(z, required) ==
    [vault_id |-> VaultId, message_hash |-> z, status |-> "pending",
     timeout_at |-> now + TransactionTimeout, sender_address |-> "none",
     error_message |-> "", signatures_required |-> required,
     signatures_received |-> 0,
     round1_data |-> [g \in {} |-> 0], round2_data |-> NoRound2,
     round3_data |-> [g \in {} |-> 0], final_signature |-> NoSignature]

NoEvents == [new_transaction |-> 0, round2_ready |-> 0, complete |-> 0]
NoCalls == [round1 |-> 0, round3 |-> 0, admin |-> 0]
\* GuardianSigningClient (tests/test_coordination_server.py) before round 1;
\* seen counts the broadcasts of each kind the client has handled.
\* GuardianClient (practical_demo/cli_guardian_client.py) after __init__:
\* current_transaction is None; handled lists the broadcasts its handlers
\* ran for, in order, and round3_called the transactions submit_round3 was
\* called with.
NoClient == [round1_started |-> FALSE, nonce_share |-> 0, seen |-> NoEvents,
             round3_complete |-> FALSE, signing_complete |-> FALSE,
             current_transaction |-> "none", handled |-> <<>>,
             round3_called |-> {}]
NoAlg == [stage |-> "none", n |-> 0, xs |-> <<>>, k |-> 0, r |-> 0, z |-> 0,
          s_shares |-> <<>>, sum |-> 0, s |-> 0,
          data |-> <<>>, point |-> Infinity, error |-> "", depth |-> 0,
          value |-> [list |-> FALSE, bytes |-> <<>>, items |-> <<>>],
          decoded |-> [list |-> FALSE, bytes |-> <<>>, items |-> <<>>]]

\* The guardian documents of a vault whose n guardians were invited one
\* after the other and have joined: share_id = guardians_joined + 1 at each
\* invitation, and the invitation code is as unique as the guardian_id.
ShareId(g) == CASE g = "g1" -> 1 [] g = "g2" -> 2 [] OTHER -> 3
JoinedGuardians(n) ==
    [g \in (IF n = 0 THEN {} ELSE Members(n)) |-> [vault_id |-> VaultId, status |-> "active",
                           share_id |-> ShareId(g), invitation_code |-> g]]

\* No transaction yet, no request in flight, no broadcast sent, no request
\* refused; the clock starts at 0
InitDatabase ==
    /\ guardians = JoinedGuardians(vault.total_guardians)
    /\ sessions = [connected |-> Connected, events |-> {},
                   vault_id |-> [g \in Connected |-> VaultId]]
    /\ now = 0
    /\ refused = {}
    /\ transactions = [t \in {} |-> 0]
    /\ handlers = [c \in Callers |-> Idle]
    /\ emitted = [t \in AllTxIds |-> NoEvents]
    /\ writes = [t \in AllTxIds |-> 0]
    /\ calls = NoCalls
    /\ clients = [g \in GuardianIds |-> NoClient]

\* The database after a vault was created, its guardians invited and joined
\* and the vault activated.
Init ==
    /\ \E shape \in VaultShapes :
          vault = [status |-> "active", coin_type |-> "bitcoin",
                   threshold |-> shape[1], total_guardians |-> shape[2],
                   guardians_joined |-> shape[2]]
    /\ shares \in ShareVectors
    /\ InitDatabase
    /\ alg = NoAlg

\* sio.emit(event, room=vault room)
Emit(t, event) ==
    emitted' = [emitted EXCEPT ![t][event] = @ + 1]

\* ------------------------------------------------------------------------
\* POST /api/transactions (routers/transactions.py create_transaction)
\* ------------------------------------------------------------------------
CreateTransaction(t, z) ==
    /\ t \notin Created
    /\ vault.status = "active"
    /\ transactions' = [x \in Created \cup {t} |->
                           IF x = t THEN NewTransaction(z, vault.threshold)
                           ELSE transactions[x]]
    /\ Emit(t, "new_transaction")
    /\ UNCHANGED <<vault, shares, handlers, writes, calls, clients, alg,
                   now, refused,
                   guardians, sessions>>


\* ------------------------------------------------------------------------
\* signing_submit_round1 (websocket/signing_protocol.py) and
\* MPCCoordinator.submit_round1_data / execute_round2 / start_signing_round3
\* (services/mpc_coordinator.py).  Every database await is one step: other
\* handlers run between two steps of one handler.
\* ------------------------------------------------------------------------
SetHandler(c, h) == handlers' = [handlers EXCEPT ![c] = h]
\* A variant of update_one without the transaction_id filter
SetEveryTx(t, doc) == transactions' = [x \in Created |-> doc]
\* update_one({"transaction_id": t}, {"$set": ...})
SetTx(t, doc) == transactions' = [transactions EXCEPT ![t] = doc]

\* Adding key g to a dict ("$set": {"round1_data.<g>": v})
DictSet(d, g, v) == [x \in DOMAIN d \cup {g} |-> IF x = g THEN v ELSE d[x]]

\* The session check passed (guardianId is the session's guardian_id), the
\* first find_one found the transaction (transactions are never deleted, so
\* what it read cannot change before the write), and update_one applies
\* "$set": round1_data.<guardian_id>.  A session waits for the answer to one
\* call before it sends the next.
SubmitRound1(g, t, nonce_share, r_point) ==
    /\ handlers[g].op = "idle"
    /\ t \in Created
    /\ SetTx(t, [transactions[t] EXCEPT !.round1_data =
                    DictSet(@, g, [nonce_share |-> nonce_share,
                                   r_point |-> r_point])])
    /\ SetHandler(g, [Idle EXCEPT !.op = "round1", !.pc = "count", !.tx = t])
    /\ UNCHANGED <<vault, shares, emitted, writes, alg,
                   now, refused,
                   guardians, sessions>>

\* The body of execute_round2's try block up to the update: decode and add
\* the R points, r = R.x mod N, k_total = sum of the nonce shares mod N.
\* It raises when an encoding is invalid (from_bytes) and when the sum is
\* the point at infinity (x is None).
Round2Raises(round1_data) ==
    \/ \E g \in DOMAIN round1_data : ~ValidEncoding(round1_data[g].r_point)
    \/ SumRaises([g \in DOMAIN round1_data |->
                     Decode(round1_data[g].r_point)],
                 DOMAIN round1_data)
    \/ SumPoints([g \in DOMAIN round1_data |->
                     Decode(round1_data[g].r_point)],
                 DOMAIN round1_data).inf

Round2Result(round1_data) ==
    LET combined == SumPoints([g \in DOMAIN round1_data |->
                                  Decode(round1_data[g].r_point)],
                              DOMAIN round1_data)
        k_total == SumMod([g \in DOMAIN round1_data |->
                              round1_data[g].nonce_share], DOMAIN round1_data)
    IN [present |-> TRUE, kTotal |-> k_total,
        r |-> combined.x % SECP256K1_N, R_combined |-> ToBytes(combined)]

\* Variant: round 2 starts one contribution early.
Round1TooFew(round1_count, required) == round1_count >= required - 1

\* round1_count >= required (mpc_coordinator.py:78)
Round1Complete(round1_count, required) == round1_count >= required

\* find_one, count the contributions; without enough of them the handler
\* returns, otherwise it goes on to execute_round2, which reads the
\* document again and computes the round-2 data.  Contributions are never
\* removed, so a count that sufficed still suffices at the second read: the
\* two reads are one step, taken when the second one happens.
Round1Count(g) ==
    LET h == handlers[g] t == h.tx rd == transactions[t].round1_data
        ready == Round1Complete(Cardinality(DOMAIN rd),
                                transactions[t].signatures_required) IN
    /\ h.op = "round1" /\ h.pc = "count"
    /\ SetHandler(g, IF ~ready THEN Idle
                     ELSE IF Round2Raises(rd)
                          THEN [h EXCEPT !.pc = "round2_failed"]
                          ELSE [h EXCEPT !.pc = "round2_write",
                                         !.round2 = Round2Result(rd)])
    /\ UNCHANGED <<vault, shares, transactions, emitted, writes, calls,
                   clients, alg,
                   now, refused,
                   guardians, sessions>>

\* execute_round2: update_one round2_data, status signing_round2
Round2Write(g) ==
    LET h == handlers[g] t == h.tx IN
    /\ h.op = "round1" /\ h.pc = "round2_write"
    /\ SetTx(t, [transactions[t] EXCEPT !.round2_data = h.round2,
                                        !.status = "signing_round2"])
    /\ writes' = [writes EXCEPT ![t] = @ + 1]
    /\ SetHandler(g, [h EXCEPT !.pc = "round3_start"])
    /\ UNCHANGED <<vault, shares, emitted, calls, clients, alg,
                   now, refused,
                   guardians, sessions>>

\* start_signing_round3: update_one status signing_round3
StartSigningRound3(g) ==
    LET h == handlers[g] t == h.tx IN
    /\ h.op = "round1" /\ h.pc = "round3_start"
    /\ SetTx(t, [transactions[t] EXCEPT !.status = "signing_round3"])
    /\ SetHandler(g, [h EXCEPT !.pc = "emit"])
    /\ UNCHANGED <<vault, shares, emitted, writes, calls, clients, alg,
                   now, refused,
                   guardians, sessions>>

\* execute_round2's except branch: update_one status failed
Round2Failed(g) ==
    LET h == handlers[g] t == h.tx IN
    /\ h.op = "round1" /\ h.pc = "round2_failed"
    /\ SetTx(t, [transactions[t] EXCEPT !.status = "failed",
                                        !.error_message = "Round 2 failed"])
    /\ SetHandler(g, [h EXCEPT !.pc = "emit"])
    /\ UNCHANGED <<vault, shares, emitted, writes, calls, clients, alg,
                   now, refused,
                   guardians, sessions>>

\* Back in signing_submit_round1: result["round2_ready"] is set, so the
\* handler emits signing:round2_ready, whatever execute_round2 returned.
Round1Emit(g) ==
    LET h == handlers[g] t == h.tx IN
    /\ h.op = "round1" /\ h.pc = "emit"
    /\ Emit(t, "round2_ready")
    /\ SetHandler(g, Idle)
    /\ UNCHANGED <<vault, shares, transactions, writes, calls, clients, alg,
                   now, refused,
                   guardians, sessions>>


\* ------------------------------------------------------------------------
\* signing_submit_round3 and MPCCoordinator.submit_round3_data /
\* execute_round4
\* ------------------------------------------------------------------------
\* Session check, find_one, and update_one with
\* "$set": round3_data.<guardian_id> and "$inc": signatures_received.  The
\* share is stored as str(int) and read back with int(str), which returns
\* the same integer.
SubmitRound3(g, t, signature_share) ==
    /\ handlers[g].op = "idle"
    /\ t \in Created
    /\ SetTx(t, [transactions[t] EXCEPT
                    !.round3_data = DictSet(@, g, signature_share),
                    !.signatures_received = @ + 1])
    /\ SetHandler(g, [Idle EXCEPT !.op = "round3", !.pc = "count", !.tx = t])
    /\ UNCHANGED <<vault, shares, emitted, writes, alg,
                   now, refused,
                   guardians, sessions>>

\* round3_count >= required (mpc_coordinator.py:218)
Round3Complete(round3_count, required) == round3_count >= required


\* The body of execute_round4's try block up to the update.  round2_data
\* defaults to {} when round 2 never ran, and round2_data["r"] then raises
\* KeyError.
Round4Raises(doc) == ~doc.round2_data.present

Round4Result(doc) ==
    [present |-> TRUE, r |-> doc.round2_data.r,
     s |-> LowS(SumMod(doc.round3_data, DOMAIN doc.round3_data))]

\* find_one and the count; with enough shares execute_round4 reads the
\* document again and computes the signature (one step, as in Round1Count).
Round3Count(g) ==
    LET h == handlers[g] t == h.tx doc == transactions[t]
        ready == Round3Complete(Cardinality(DOMAIN doc.round3_data),
                                doc.signatures_required) IN
    /\ h.op = "round3" /\ h.pc = "count"
    /\ SetHandler(g, IF ~ready THEN Idle
                     ELSE IF Round4Raises(doc)
                          THEN [h EXCEPT !.pc = "round4_failed"]
                          ELSE [h EXCEPT !.pc = "round4_write",
                                         !.signature = Round4Result(doc)])
    /\ UNCHANGED <<vault, shares, transactions, emitted, writes, calls,
                   clients, alg,
                   now, refused,
                   guardians, sessions>>

\* execute_round4: update_one final_signature, status completed
Round4Write(g) ==
    LET h == handlers[g] t == h.tx IN
    /\ h.op = "round3" /\ h.pc = "round4_write"
    /\ SetTx(t, [transactions[t] EXCEPT !.final_signature = h.signature,
                                        !.status = "completed"])
    /\ SetHandler(g, [h EXCEPT !.pc = "emit"])
    /\ UNCHANGED <<vault, shares, emitted, writes, calls, clients, alg,
                   now, refused,
                   guardians, sessions>>

\* execute_round4's except branch: update_one status failed
Round4Failed(g) ==
    LET h == handlers[g] t == h.tx IN
    /\ h.op = "round3" /\ h.pc = "round4_failed"
    /\ SetTx(t, [transactions[t] EXCEPT !.status = "failed",
                                        !.error_message = "Round 4 failed"])
    /\ SetHandler(g, [h EXCEPT !.pc = "emit"])
    /\ UNCHANGED <<vault, shares, emitted, writes, calls, clients, alg,
                   now, refused,
                   guardians, sessions>>

\* Back in signing_submit_round3: result["round4_ready"] is set, so the
\* handler emits signing:complete, whatever execute_round4 returned.  (The
\* guardians' signature statistics it then updates are not part of the
\* state modelled here.)
Round3Emit(g) ==
    LET h == handlers[g] t == h.tx IN
    /\ h.op = "round3" /\ h.pc = "emit"
    /\ Emit(t, "complete")
    /\ SetHandler(g, Idle)
    /\ UNCHANGED <<vault, shares, transactions, writes, calls, clients, alg,
                   now, refused,
                   guardians, sessions>>

\* ------------------------------------------------------------------------
\* DELETE and PATCH /api/transactions/{id} (routers/transactions.py)
\* ------------------------------------------------------------------------
\* cancel_transaction: find_one and the status check; any other status is
\* answered 400 without a write.
CancelRead(t) ==
    /\ handlers["admin"].op = "idle"
    /\ TotalCalls < MaxCalls
    /\ t \in Created
    /\ transactions[t].status \in {"pending", "signing_round1"}
    /\ SetHandler("admin", [Idle EXCEPT !.op = "cancel", !.pc = "write",
                                        !.tx = t])
    /\ calls' = [calls EXCEPT !.admin = @ + 1]
    /\ UNCHANGED <<vault, shares, transactions, emitted, writes, clients, alg,
                   now, refused,
                   guardians, sessions>>

\* cancel_transaction: update_one status cancelled
CancelWrite ==
    LET h == handlers["admin"] t == h.tx IN
    /\ h.op = "cancel" /\ h.pc = "write"
    /\ SetTx(t, [transactions[t] EXCEPT !.status = "cancelled"])
    /\ SetHandler("admin", Idle)
    /\ UNCHANGED <<vault, shares, emitted, writes, calls, clients, alg,
                   now, refused,
                   guardians, sessions>>

\* update_transaction with a status in the body: the document is found and
\* "$set": {status} is applied, whatever the current status is.
UpdateTransaction(t, status) ==
    /\ handlers["admin"].op = "idle"
    /\ TotalCalls < MaxCalls
    /\ t \in Created
    /\ SetTx(t, [transactions[t] EXCEPT !.status = status])
    /\ calls' = [calls EXCEPT !.admin = @ + 1]
    /\ UNCHANGED <<vault, shares, handlers, emitted, writes, clients, alg,
                   now, refused,
                   guardians, sessions>>

\* ------------------------------------------------------------------------
\* The coordinator under arbitrary clients
\* ------------------------------------------------------------------------
\* What a guardian may send as its round-3 share: the share computed from
\* the round-2 data now published, or a value unrelated to it.
Round3Inputs(g, t) ==
    LET doc == transactions[t] r2 == doc.round2_data IN
    JunkShares \cup
    (IF r2.present /\ CanSignRound3(r2.kTotal, vault.total_guardians)
     THEN {SignRound3(shares[g], doc.message_hash, r2.r, r2.kTotal,
                      vault.total_guardians)}
     ELSE {})

\* A client sends signing_submit_round1 with a nonce share and its R point
AnyRound1(g, t, k) ==
    /\ TotalCalls < MaxCalls
    /\ SubmitRound1(g, t, k, ToBytes(GTable[k]))
    /\ calls' = [calls EXCEPT !.round1 = @ + 1]
    /\ UNCHANGED clients

\* A client sends signing_submit_round3 with some share
AnyRound3(g, t, s) ==
    /\ TotalCalls < MaxCalls
    /\ SubmitRound3(g, t, s)
    /\ calls' = [calls EXCEPT !.round3 = @ + 1]
    /\ UNCHANGED clients

\* The steps of a signing_submit_round1 handler after its first write
Round1Step(g) ==
    \/ Round1Count(g) \/ Round2Write(g) \/ StartSigningRound3(g)
    \/ Round2Failed(g) \/ Round1Emit(g)

\* The steps of a signing_submit_round3 handler after its first write
Round3Step(g) ==
    \/ Round3Count(g) \/ Round4Write(g) \/ Round4Failed(g) \/ Round3Emit(g)

HandlerStep(g) == Round1Step(g) \/ Round3Step(g)

Next ==
    \/ \E t \in TxIds, z \in MessageHashes : CreateTransaction(t, z)
    \/ \E g \in Connected, t \in TxIds, k \in NonceChoices : AnyRound1(g, t, k)
    \/ \E g \in Connected, t \in Created :
          \E s \in Round3Inputs(g, t) : AnyRound3(g, t, s)
    \/ \E g \in GuardianIds : HandlerStep(g)
    \/ \E t \in TxIds : CancelRead(t)
    \/ CancelWrite
    \/ \E t \in TxIds, st \in PatchStatuses : UpdateTransaction(t, st)

Spec == Init /\ [][Next]_vars

\* ------------------------------------------------------------------------
\* The coordinator with guardians that follow the protocol
\* (GuardianSigningClient, tests/test_coordination_server.py)
\* ------------------------------------------------------------------------
\* Nonce shares the clients draw; no sum of two or three of them is 0 mod N.
LiveNonces == {3, 5}

\* MPCCoordinator.get_round2_data: the keys of the data it returns
GetRound2Data(doc) ==
    IF ~doc.round2_data.present
    THEN [success |-> FALSE, keys |-> {}, k_total |-> 0, r |-> 0]
    ELSE [success |-> TRUE, keys |-> {"k_total", "r", "num_parties"},
          k_total |-> doc.round2_data.kTotal, r |-> doc.round2_data.r]

\* signing_get_round2_data: it builds its answer from data_dict["k_total"],
\* ["r"], ["num_parties"] and ["message_hash"]; a missing key raises
\* KeyError, which the handler answers with success False.
SigningGetRound2Data(doc) ==
    LET result == GetRound2Data(doc) IN
    IF result.success
          /\ {"k_total", "r", "num_parties", "message_hash"} \subseteq result.keys
    THEN result
    ELSE [result EXCEPT !.success = FALSE]

\* execute_round1: draw a nonce share and send signing_submit_round1
ExecuteRound1(g, t, k) ==
    /\ ~clients[g].round1_started
    /\ SubmitRound1(g, t, k, ToBytes(GTable[k]))
    /\ clients' = [clients EXCEPT ![g].round1_started = TRUE,
                                  ![g].nonce_share = k]
    /\ UNCHANGED calls

\* on_round2_ready -> execute_round3: fetch the round-2 data; without a
\* successful answer the client returns, otherwise it computes its share
\* and sends signing_submit_round3.
OnRound2Ready(g, t) ==
    LET response == SigningGetRound2Data(transactions[t])
        seen == [clients EXCEPT ![g].seen.round2_ready = @ + 1] IN
    /\ t \in Created
    /\ clients[g].seen.round2_ready < emitted[t].round2_ready
    /\ IF response.success
       THEN /\ SubmitRound3(g, t, SignRound3(shares[g],
                                             transactions[t].message_hash,
                                             response.r, response.k_total,
                                             vault.total_guardians))
            /\ clients' = [seen EXCEPT ![g].round3_complete = TRUE]
       ELSE /\ clients' = seen
            /\ UNCHANGED <<vault, shares, transactions, handlers, emitted,
                           writes, alg,
                   now, refused,
                   guardians, sessions>>
    /\ UNCHANGED calls

\* No client ever sends signing_submit_round3 (execute_round3 returns before
\* it when the answer is not a success), so the steps of that handler and
\* the clients' on_signing_complete take no part.
NextLive ==
    \/ \E t \in TxIds, z \in MessageHashes : CreateTransaction(t, z)
    \/ \E g \in Members(vault.total_guardians), t \in TxIds, k \in LiveNonces :
          ExecuteRound1(g, t, k)
    \/ \E g \in GuardianIds :
          \/ Round1Count(g) \/ Round2Write(g) \/ StartSigningRound3(g)
          \/ Round1Emit(g)
    \/ \E g \in Members(vault.total_guardians), t \in TxIds : OnRound2Ready(g, t)

\* asyncio runs every task that is ready, and socket.io delivers every
\* broadcast to the connected clients.
SpecLive == Init /\ [][NextLive]_vars /\ WF_vars(NextLive)

\* ------------------------------------------------------------------------
\* The signing arithmetic alone (guardianvault/threshold_signing.py)
\* ------------------------------------------------------------------------
MaxParties == 3
AlgShares == {0, 7, 30}
AlgNonces == {1, 6, 30}
AlgRs == {0, 1, 29}
AlgDigests == {0, 5, 33}

\* sum(...) % N over a list
RECURSIVE SumSeq(_)
SumSeq(q) ==
    IF q = <<>> THEN 0 ELSE (q[1] + SumSeq(Tail(q))) % SECP256K1_N

InitAlg ==
    /\ vault = [status |-> "active", coin_type |-> "bitcoin", threshold |-> 2,
                total_guardians |-> 2, guardians_joined |-> 2]
    /\ InitDatabase
    /\ shares = [g \in GuardianIds |-> 0]
    /\ \E n \in 1..MaxParties :
          \E xs \in [1..n -> AlgShares], k \in AlgNonces, r \in AlgRs,
             z \in AlgDigests :
             alg = [NoAlg EXCEPT !.stage = "round3", !.n = n, !.xs = xs,
                                 !.k = k, !.r = r, !.z = z]

\* The next party computes its share (sign_round3_compute_signature_share)
AlgRound3 ==
    /\ alg.stage = "round3"
    /\ Len(alg.s_shares) < alg.n
    /\ CanSignRound3(alg.k, alg.n)
    /\ alg' = [alg EXCEPT !.s_shares =
                  Append(@, SignRound3(alg.xs[Len(alg.s_shares) + 1], alg.z,
                                       alg.r, alg.k, alg.n))]
    /\ UNCHANGED <<vault, shares, transactions, handlers, emitted, writes,
                   calls, clients,
                   now, refused,
                   guardians, sessions>>

\* sign_round4_combine_signatures: the sum of the shares mod N, then low-S
AlgRound4 ==
    /\ alg.stage = "round3"
    /\ Len(alg.s_shares) = alg.n
    /\ alg' = [alg EXCEPT !.stage = "combined",
                          !.sum = SumSeq(alg.s_shares),
                          !.s = LowS(SumSeq(alg.s_shares))]
    /\ UNCHANGED <<vault, shares, transactions, handlers, emitted, writes,
                   calls, clients,
                   now, refused,
                   guardians, sessions>>

NextAlg == AlgRound3 \/ AlgRound4

SpecAlg == InitAlg /\ [][NextAlg]_vars

\* ------------------------------------------------------------------------
\* The session check of signing_submit_round1 / signing_submit_round3
\* (websocket/signing_protocol.py): a connection whose session holds one
\* guardian_id sends requests that name any guardianId
\* ------------------------------------------------------------------------
\* return {"success": False, "error": error}
Refuse(handler, error) ==
    refused' = refused \cup {[handler |-> handler, error |-> error]}

\* Variant: the guardianId of the request is taken as it comes.
SessionUnchecked(session_guardian_id, guardian_id) == FALSE

\* session_guardian_id != guardian_id
SessionMismatch(session_guardian_id, guardian_id) ==
    session_guardian_id # guardian_id

\* signing_submit_round1 from its first line: the session check, then
\* submit_round1_data for the guardianId of the request
SigningSubmitRound1(session_guardian_id, guardian_id, t, k) ==
    /\ handlers[session_guardian_id].op = "idle"
    /\ IF SessionMismatch(session_guardian_id, guardian_id)
       THEN /\ Refuse("signing_submit_round1", "Guardian ID mismatch")
            /\ UNCHANGED <<vault, shares, transactions, handlers, emitted,
                           writes, calls, clients, alg, now,
                           guardians, sessions>>
       ELSE AnyRound1(guardian_id, t, k)

\* signing_submit_round3 from its first line
SigningSubmitRound3(session_guardian_id, guardian_id, t, s) ==
    /\ handlers[session_guardian_id].op = "idle"
    /\ IF SessionMismatch(session_guardian_id, guardian_id)
       THEN /\ Refuse("signing_submit_round3", "Guardian ID mismatch")
            /\ UNCHANGED <<vault, shares, transactions, handlers, emitted,
                           writes, calls, clients, alg, now,
                           guardians, sessions>>
       ELSE AnyRound3(guardian_id, t, s)

\* One vault, of two guardians, and one sharing of its key
InitSession ==
    /\ Init
    /\ vault.total_guardians = 2
    /\ shares["g1"] = 4

NextSession ==
    \/ \E t \in TxIds, z \in MessageHashes : CreateTransaction(t, z)
    \/ \E c \in Connected, g \in GuardianIds, t \in TxIds,
          k \in NonceChoices : SigningSubmitRound1(c, g, t, k)
    \/ \E c \in Connected, g \in GuardianIds, t \in Created :
          \E s \in Round3Inputs(g, t) : SigningSubmitRound3(c, g, t, s)
    \/ \E g \in GuardianIds : HandlerStep(g)

SpecSession == InitSession /\ [][NextSession]_vars

\* ------------------------------------------------------------------------
\* The server as time passes (main.py lifespan): the application starts no
\* background task, so the clock advances and requests are served, and that
\* is all that runs
\* ------------------------------------------------------------------------
MaxTime == 4

\* datetime.utcnow() returns a later time
Tick ==
    /\ now < MaxTime
    /\ now' = now + 1
    /\ UNCHANGED <<vault, shares, transactions, handlers, emitted, writes,
                   calls, clients, alg, refused, guardians, sessions>>

NextTimeout ==
    \/ \E t \in TxIds, z \in MessageHashes : CreateTransaction(t, z)
    \/ Tick
    \/ \E g \in Connected, t \in TxIds, k \in NonceChoices : AnyRound1(g, t, k)
    \/ \E g \in GuardianIds : Round1Step(g)

\* Every request is served to its end and time does not stop
SpecTimeout == Init /\ [][NextTimeout]_vars /\ WF_vars(NextTimeout)

\* ------------------------------------------------------------------------
\* Round 1 with R points of every kind (execute_round2 and
\* EllipticCurvePoint.from_bytes)
\* ------------------------------------------------------------------------
\* What a client may send as rPoint: a point of the curve and its negative
\* (their sum is the point at infinity), a compressed and an uncompressed
\* encoding of coordinates that are not on the curve, and an encoding with
\* an unknown prefix.
Round1Points ==
    {ToBytes(GTable[3]), ToBytes(GTable[28]), <<2, 5>>, <<4, 1, 1>>,
     <<5, 1>>}

\* A client sends signing_submit_round1 with any rPoint
AnyRound1Point(g, t, k, r_point) ==
    /\ TotalCalls < MaxCalls
    /\ SubmitRound1(g, t, k, r_point)
    /\ calls' = [calls EXCEPT !.round1 = @ + 1]
    /\ UNCHANGED clients

NextRound2 ==
    \/ \E t \in TxIds, z \in MessageHashes : CreateTransaction(t, z)
    \/ \E g \in Connected, t \in TxIds, r_point \in Round1Points :
          AnyRound1Point(g, t, 3, r_point)
    \/ \E g \in GuardianIds : Round1Step(g)

SpecRound2 == Init /\ [][NextRound2]_vars

\* ------------------------------------------------------------------------
\* EllipticCurvePoint.from_bytes alone (guardianvault/mpc_keymanager.py)
\* ------------------------------------------------------------------------
\* Every encoding over the field: compressed with either parity prefix,
\* uncompressed with any pair of coordinates, and an unknown prefix
Encodings ==
    {<<prefix, x>> : prefix \in {2, 3, 5}, x \in 0 .. (SECP256K1_P - 1)}
       \cup {<<4, x, y>> : x \in 0 .. (SECP256K1_P - 1),
                           y \in 0 .. (SECP256K1_P - 1)}

\* Some bytes to decode
InitDecode ==
    /\ vault = [status |-> "active", coin_type |-> "bitcoin", threshold |-> 2,
                total_guardians |-> 2, guardians_joined |-> 2]
    /\ InitDatabase
    /\ shares = [g \in GuardianIds |-> 0]
    /\ \E data \in Encodings :
          alg = [NoAlg EXCEPT !.stage = "encoded", !.data = data]

\* EllipticCurvePoint.from_bytes(data): a point, or ValueError
DecodePoint ==
    /\ alg.stage = "encoded"
    /\ alg' = IF ValidEncoding(alg.data)
              THEN [alg EXCEPT !.stage = "decoded",
                               !.point = FromBytes(alg.data)]
              ELSE [alg EXCEPT !.stage = "raised",
                               !.error = "Invalid point encoding"]
    /\ UNCHANGED <<vault, shares, transactions, handlers, emitted, writes,
                   calls, clients, now, refused,
                   guardians, sessions>>

NextDecode == DecodePoint

SpecDecode == InitDecode /\ [][NextDecode]_vars

\* ------------------------------------------------------------------------
\* signing_get_final_signature (websocket/signing_protocol.py) and
\* MPCCoordinator.get_final_signature, asked by a session for its own
\* guardian id
\* ------------------------------------------------------------------------
\* The keys of the final_signature dict execute_round4 stores
FinalSignatureKeys == {"r", "s", "rHex", "sHex", "created_at"}

\* MPCCoordinator.get_final_signature
GetFinalSignature(doc) ==
    IF doc.status # "completed"
    THEN [success |-> FALSE, error |-> "Transaction not completed yet",
          keys |-> {}, r |-> 0, s |-> 0]
    ELSE IF ~doc.final_signature.present
    THEN [success |-> FALSE, error |-> "Signature not found",
          keys |-> {}, r |-> 0, s |-> 0]
    ELSE [success |-> TRUE, error |-> "", keys |-> FinalSignatureKeys,
          r |-> doc.final_signature.r, s |-> doc.final_signature.s]

\* signing_get_final_signature: it builds its answer from sig["r"],
\* sig["s"], sig["r_hex"] and sig["s_hex"]; a missing key raises KeyError,
\* which the handler answers with success False.
SigningGetFinalSignature(doc) ==
    LET result == GetFinalSignature(doc) IN
    IF result.success /\ ~({"r", "s", "r_hex", "s_hex"} \subseteq result.keys)
    THEN [result EXCEPT !.success = FALSE, !.error = "KeyError"]
    ELSE result

\* ------------------------------------------------------------------------
\* POST /api/transactions from its first line (routers/transactions.py
\* create_transaction), for a vault in any status and requests naming any
\* vault and coin type
\* ------------------------------------------------------------------------
VaultStatuses == {"setup", "active", "suspended", "archived"}
CoinTypes == {"bitcoin", "ethereum"}
\* The vault that exists and an id no vault has
VaultIds == {VaultId, "v0"}

\* Variant: the coin type of the request is not compared with the vault's.
CreateTransactionErrorAnyCoin(vault_id, coin_type) ==
    IF vault_id # VaultId THEN "Vault not found"
    ELSE IF vault.status # "active" THEN "Vault status must be active"
    ELSE ""

\* The three checks before the insert: the HTTPException detail, or "" when
\* the request passes them
CreateTransactionError(vault_id, coin_type) ==
    IF vault_id # VaultId THEN "Vault not found"
    ELSE IF vault.status # "active" THEN "Vault status must be active"
    ELSE IF coin_type # vault.coin_type THEN "Coin type mismatch"
    ELSE ""

\* create_transaction as a whole.  The vault is read once and does not
\* change in this specification; the transaction id is drawn afresh.
PostTransaction(t, z, vault_id, coin_type) ==
    LET error == CreateTransactionError(vault_id, coin_type) IN
    IF error # ""
    THEN /\ Refuse("create_transaction", error)
         /\ UNCHANGED <<vault, shares, transactions, handlers, emitted,
                        writes, calls, clients, alg, now,
                           guardians, sessions>>
    ELSE CreateTransaction(t, z)

\* A vault in some status, holding some coin
InitCreate ==
    /\ \E shape \in VaultShapes, st \in VaultStatuses, coin \in CoinTypes :
          vault = [status |-> st, coin_type |-> coin,
                   threshold |-> shape[1], total_guardians |-> shape[2],
                   guardians_joined |-> shape[2]]
    /\ shares \in ShareVectors
    /\ InitDatabase
    /\ alg = NoAlg

NextCreate ==
    \E t \in TxIds, z \in MessageHashes, vault_id \in VaultIds,
       coin_type \in CoinTypes : PostTransaction(t, z, vault_id, coin_type)

SpecCreate == InitCreate /\ [][NextCreate]_vars

\* ------------------------------------------------------------------------
\* DELETE and PATCH /api/vaults/{id} (routers/vaults.py) while guardians
\* sign
\* ------------------------------------------------------------------------
\* delete_vault: the vault is found and "$set": {status: archived} applied
DeleteVault ==
    /\ TotalCalls < MaxCalls
    /\ vault.status # "none"
    /\ vault' = [vault EXCEPT !.status = "archived"]
    /\ calls' = [calls EXCEPT !.admin = @ + 1]
    /\ UNCHANGED <<shares, transactions, handlers, emitted, writes, clients,
                   alg, now, refused, guardians, sessions>>

\* update_vault with a status in the body: the vault is found and
\* "$set": {status} applied, whatever the vault's state is
UpdateVault(status) ==
    /\ TotalCalls < MaxCalls
    /\ vault.status # "none"
    /\ vault' = [vault EXCEPT !.status = status]
    /\ calls' = [calls EXCEPT !.admin = @ + 1]
    /\ UNCHANGED <<shares, transactions, handlers, emitted, writes, clients,
                   alg, now, refused, guardians, sessions>>

NextSuspend ==
    \/ \E t \in TxIds, z \in MessageHashes : CreateTransaction(t, z)
    \/ \E g \in Connected, t \in TxIds, k \in NonceChoices : AnyRound1(g, t, k)
    \/ \E g \in Connected, t \in Created :
          \E s \in Round3Inputs(g, t) : AnyRound3(g, t, s)
    \/ \E g \in GuardianIds : HandlerStep(g)
    \/ DeleteVault
    \/ \E status \in VaultStatuses : UpdateVault(status)

SpecSuspend == InitSession /\ [][NextSuspend]_vars

\* ------------------------------------------------------------------------
\* Setting a vault up: create_vault, activate_vault, update_vault,
\* delete_vault (routers/vaults.py) and invite_guardian, join_as_guardian,
\* remove_guardian (routers/guardians.py).  Every database await is one
\* step; two HTTP clients send requests at the same time.
\* ------------------------------------------------------------------------
NoVault == [status |-> "none", coin_type |-> "", threshold |-> 0,
            total_guardians |-> 0, guardians_joined |-> 0]

\* <<threshold, total_guardians>> of a POST /api/vaults body that passes
\* VaultCreate's field bounds (threshold >= 2, total_guardians >= 2)
VaultRequests == {<<2, 2>>, <<2, 3>>, <<3, 2>>}

\* The server before any vault exists
InitSetup ==
    /\ vault = NoVault
    /\ shares \in ShareVectors
    /\ InitDatabase
    /\ alg = NoAlg

\* create_vault: threshold > total_guardians is refused, anything else is
\* inserted with status setup and no guardian
CreateVault(threshold, total_guardians, coin_type) ==
    /\ vault.status = "none"
    /\ IF threshold > total_guardians
       THEN /\ Refuse("create_vault", "Threshold cannot exceed total guardians")
            /\ UNCHANGED vault
       ELSE /\ vault' = [status |-> "setup", coin_type |-> coin_type,
                         threshold |-> threshold,
                         total_guardians |-> total_guardians,
                         guardians_joined |-> 0]
            /\ UNCHANGED refused
    /\ UNCHANGED <<shares, transactions, handlers, emitted, writes, calls,
                   clients, alg, now, guardians, sessions>>

\* activate_vault: refused while guardians_joined < total_guardians,
\* otherwise "$set": {status: active}; the vault's status is not read
ActivateVault ==
    /\ TotalCalls < MaxCalls
    /\ vault.status # "none"
    /\ IF vault.guardians_joined < vault.total_guardians
       THEN /\ Refuse("activate_vault", "Cannot activate")
            /\ UNCHANGED vault
       ELSE /\ vault' = [vault EXCEPT !.status = "active"]
            /\ UNCHANGED refused
    /\ calls' = [calls EXCEPT !.admin = @ + 1]
    /\ UNCHANGED <<shares, transactions, handlers, emitted, writes, clients,
                   alg, now, guardians, sessions>>

\* guardian_id = "guard_" + shortuuid: an id no guardian document has
FreshGuardianId == CHOOSE g \in GuardianIds \ DOMAIN guardians : TRUE
Inviting == {c \in HttpClients : handlers[c].op = "invite"
                                   /\ handlers[c].pc = "insert"}

\* invite_guardian: find_one on the vault, the vault-full check, and
\* share_id = guardians_joined + 1 as read
InviteRead(c) ==
    /\ TotalCalls < MaxCalls
    /\ handlers[c].op = "idle"
    /\ vault.status # "none"
    /\ Cardinality(DOMAIN guardians) + Cardinality(Inviting)
          < Cardinality(GuardianIds)
    /\ IF vault.guardians_joined >= vault.total_guardians
       THEN /\ Refuse("invite_guardian", "Vault already has maximum guardians")
            /\ UNCHANGED handlers
       ELSE /\ SetHandler(c, [Idle EXCEPT !.op = "invite", !.pc = "insert",
                                 !.share_id = vault.guardians_joined + 1])
            /\ UNCHANGED refused
    /\ calls' = [calls EXCEPT !.admin = @ + 1]
    /\ UNCHANGED <<vault, shares, transactions, emitted, writes, clients,
                   alg, now, guardians, sessions>>

\* invite_guardian: insert_one of the guardian document
InviteInsert(c) ==
    LET h == handlers[c] g == FreshGuardianId IN
    /\ h.op = "invite" /\ h.pc = "insert"
    /\ guardians' = [x \in DOMAIN guardians \cup {g} |->
                        IF x = g
                        THEN [vault_id |-> VaultId, status |-> "invited",
                              share_id |-> h.share_id, invitation_code |-> g]
                        ELSE guardians[x]]
    /\ SetHandler(c, [h EXCEPT !.pc = "update", !.guardian = g])
    /\ UNCHANGED <<vault, shares, transactions, emitted, writes, calls,
                   clients, alg, now, refused, sessions>>

\* invite_guardian: update_one "$inc": {guardians_joined: 1}
InviteUpdate(c) ==
    LET h == handlers[c] IN
    /\ h.op = "invite" /\ h.pc = "update"
    /\ vault' = [vault EXCEPT !.guardians_joined = @ + 1]
    /\ SetHandler(c, Idle)
    /\ UNCHANGED <<shares, transactions, emitted, writes, calls, clients,
                   alg, now, refused, guardians, sessions>>

\* join_as_guardian: find_one by invitation code; an unknown code is
\* answered 404, the code of an active guardian is answered with the
\* document as it is, any other status goes on to the update
JoinRead(c, invitation_code) ==
    LET found == {g \in DOMAIN guardians :
                     guardians[g].invitation_code = invitation_code} IN
    /\ TotalCalls < MaxCalls
    /\ handlers[c].op = "idle"
    /\ IF found = {}
       THEN /\ Refuse("join_as_guardian", "Invalid invitation code")
            /\ UNCHANGED handlers
       ELSE LET g == CHOOSE g \in found : TRUE IN
            /\ SetHandler(c, IF guardians[g].status = "active" THEN Idle
                             ELSE [Idle EXCEPT !.op = "join", !.pc = "update",
                                               !.guardian = g])
            /\ UNCHANGED refused
    /\ calls' = [calls EXCEPT !.admin = @ + 1]
    /\ UNCHANGED <<vault, shares, transactions, emitted, writes, clients,
                   alg, now, guardians, sessions>>

\* join_as_guardian: update_one "$set": {status: active, ...}
JoinUpdate(c) ==
    LET h == handlers[c] IN
    /\ h.op = "join" /\ h.pc = "update"
    /\ guardians' = [guardians EXCEPT ![h.guardian].status = "active"]
    /\ SetHandler(c, Idle)
    /\ UNCHANGED <<vault, shares, transactions, emitted, writes, calls,
                   clients, alg, now, refused, sessions>>

\* remove_guardian: the guardian is found and "$set": {status: removed}
\* applied
RemoveGuardian(g) ==
    /\ TotalCalls < MaxCalls
    /\ g \in DOMAIN guardians
    /\ guardians' = [guardians EXCEPT ![g].status = "removed"]
    /\ calls' = [calls EXCEPT !.admin = @ + 1]
    /\ UNCHANGED <<vault, shares, transactions, handlers, emitted, writes,
                   clients, alg, now, refused, sessions>>

NextSetup ==
    \/ \E request \in VaultRequests, coin_type \in CoinTypes :
          CreateVault(request[1], request[2], coin_type)
    \/ ActivateVault
    \/ DeleteVault
    \/ \E status \in VaultStatuses : UpdateVault(status)
    \/ \E c \in HttpClients : InviteRead(c) \/ InviteInsert(c) \/ InviteUpdate(c)
    \/ \E c \in HttpClients, code \in GuardianIds : JoinRead(c, code)
    \/ \E c \in HttpClients : JoinUpdate(c)
    \/ \E g \in GuardianIds : RemoveGuardian(g)

SpecSetup == InitSetup /\ [][NextSetup]_vars

\* ------------------------------------------------------------------------
\* Sockets that come and go (main.py connect / disconnect) while guardians
\* sign.  A handler already running for a session goes on after the
\* session has ended.
\* ------------------------------------------------------------------------
\* Variant: a disconnect fails the transactions the guardian was signing.
FailOnDisconnect(g, txs) ==
    [t \in DOMAIN txs |->
        IF g \in DOMAIN txs[t].round1_data
              /\ txs[t].status \notin TerminalStatuses
        THEN [txs[t] EXCEPT !.status = "failed",
                            !.error_message = "Guardian disconnected"]
        ELSE txs[t]]

\* The transactions collection after disconnect(sid) ran for guardian g:
\* the handler reads the session and emits, and touches no collection
AfterDisconnect(g, txs) == txs

\* disconnect: emit guardian:disconnected to the vault room
Disconnect(g) ==
    /\ g \in sessions.connected
    /\ sessions' = [sessions EXCEPT
                       !.connected = @ \ {g},
                       !.events = @ \cup {<<"guardian:disconnected", g>>}]
    /\ transactions' = AfterDisconnect(g, transactions)
    /\ UNCHANGED <<vault, shares, handlers, emitted, writes, calls, clients,
                   alg, now, refused, guardians>>

\* connect with auth {vaultId, guardianId}: the session stores both, joins
\* the vault room and guardian:connected is emitted
Connect(g) ==
    /\ g \notin sessions.connected
    /\ sessions' = [sessions EXCEPT
                       !.connected = @ \cup {g},
                       !.events = @ \cup {<<"guardian:connected", g>>}]
    /\ UNCHANGED <<vault, shares, transactions, handlers, emitted, writes,
                   calls, clients, alg, now, refused, guardians>>

NextDisconnect ==
    \/ \E t \in TxIds, z \in MessageHashes : CreateTransaction(t, z)
    \/ \E g \in Connected, t \in TxIds, k \in NonceChoices :
          g \in sessions.connected /\ AnyRound1(g, t, k)
    \/ \E g \in Connected, t \in Created :
          \E s \in Round3Inputs(g, t) :
             g \in sessions.connected /\ AnyRound3(g, t, s)
    \/ \E g \in GuardianIds : HandlerStep(g)
    \/ \E g \in Connected : Disconnect(g)
    \/ \E g \in Connected : Connect(g)

SpecDisconnect == InitSession /\ [][NextDisconnect]_vars

\* ------------------------------------------------------------------------
\* POST /api/transactions for a Bitcoin spend (routers/transactions.py
\* compute_message_hash, guardianvault/bitcoin_transaction.py
\* build_p2pkh_transaction).  An address is modelled by the type
\* decode_address_to_hash finds for it.
\* ------------------------------------------------------------------------
SenderTypes == {"p2pkh", "p2wpkh", "p2tr"}
RecipientTypes == {"p2wpkh", "p2sh"}

\* build_p2pkh_transaction: the exception it raises, or the length of the
\* tuple it returns (tx, script_code)
BuildP2pkhTransaction(sender_type, recipient_type) ==
    IF recipient_type \notin {"p2wpkh", "p2pkh", "p2tr"} THEN "ValueError"
    ELSE IF sender_type \in {"p2wpkh", "p2pkh"} THEN "tuple of 2"
    ELSE IF sender_type = "p2tr" THEN "NotImplementedError"
    ELSE "ValueError"

\* compute_message_hash: which digest it returns.  It unpacks four values
\* from the builder's result inside a try block whose except branch falls
\* through to the sha256 of amount, recipient and vault id; no exception
\* leaves the function.
ComputeMessageHash(coin_type, utxo, sender_type, recipient_type) ==
    IF coin_type = "bitcoin" /\ utxo
          /\ BuildP2pkhTransaction(sender_type, recipient_type) = "tuple of 4"
    THEN IF sender_type = "p2wpkh" THEN "bip143 sighash"
         ELSE "legacy sighash"
    ELSE "fallback sha256"

\* create_transaction for a request with sender_address and, if utxo, the
\* UTXO details: the vault checks, the message hash (digest z), the insert
\* and the broadcast
PostBitcoinTransaction(t, z, coin_type, utxo, sender_type, recipient_type) ==
    LET error == CreateTransactionError(VaultId, coin_type)
        method == ComputeMessageHash(coin_type, utxo, sender_type,
                                     recipient_type) IN
    /\ t \notin Created
    /\ IF error # ""
       THEN /\ Refuse("create_transaction", error)
            /\ UNCHANGED <<transactions, emitted>>
       ELSE /\ method \in {"bip143 sighash", "legacy sighash",
                           "fallback sha256"}
            /\ transactions' =
                  [x \in Created \cup {t} |->
                      IF x = t
                      THEN [NewTransaction(z, vault.threshold)
                               EXCEPT !.sender_address = sender_type]
                      ELSE transactions[x]]
            /\ Emit(t, "new_transaction")
            /\ UNCHANGED refused
    /\ UNCHANGED <<vault, shares, handlers, writes, calls, clients, alg, now,
                   guardians, sessions>>

NextSender ==
    \E t \in TxIds, z \in MessageHashes, coin_type \in CoinTypes,
       utxo \in BOOLEAN, sender_type \in SenderTypes,
       recipient_type \in RecipientTypes :
       PostBitcoinTransaction(t, z, coin_type, utxo, sender_type,
                              recipient_type)

SpecSender == InitCreate /\ [][NextSender]_vars

\* ------------------------------------------------------------------------
\* Key setup (guardianvault/mpc_keymanager.py): generate_shares, then
\* derive_master_keys_distributed, then three hardened derivations down to
\* m/44'/coin'/account'.  HMAC-SHA512 is a function the model does not
\* compute: the tweak it yields is any value of Tweaks, the same for two
\* parties that feed it the same share.
\* ------------------------------------------------------------------------
SetupShares == {0, 7, 30}
Tweaks == {1, 30}
AccountDepth == 3

\* sum of G * share over the list, in list order, from the point at
\* infinity ("child_public_point = child_public_point + share_public_point")
RECURSIVE SumSharePoints(_)
SumSharePoints(xs) ==
    IF xs = <<>> THEN Infinity
    ELSE Add(SumSharePoints(SubSeq(xs, 1, Len(xs) - 1)), GTable[xs[Len(xs)]])

\* A variant that takes the first party's public share for the public key
FirstSharePublicKey(child_shares) == ToBytes(GTable[child_shares[1]])

\* The public key derive_master_keys_distributed and
\* derive_hardened_child_distributed return with the new shares
SharesPublicKey(child_shares) == ToBytes(SumSharePoints(child_shares))

\* MPCKeyGeneration.generate_shares(num_parties): num_parties - 1 random
\* shares and the last one completing the sum to a random master key
GenerateShares(random, master_private_key) ==
    Append(random, (master_private_key + SECP256K1_N - SumSeq(random))
                       % SECP256K1_N)

InitSetupShares ==
    /\ vault = [status |-> "active", coin_type |-> "bitcoin", threshold |-> 2,
                total_guardians |-> 2, guardians_joined |-> 2]
    /\ InitDatabase
    /\ shares = [g \in GuardianIds |-> 0]
    /\ \E n \in 2..MaxParties :
          \E random \in [1..(n - 1) -> SetupShares],
             master_private_key \in SetupShares :
             alg = [NoAlg EXCEPT !.stage = "shares", !.n = n,
                                 !.xs = GenerateShares(random,
                                                       master_private_key),
                                 !.data = ToBytes(GTable[master_private_key])]

\* MPCBIP32.derive_master_keys_distributed: every party adds the same
\* master_key_int, derived from the seed, to its share
DeriveMasterKeys(master_key_int) ==
    /\ alg.stage = "shares"
    /\ LET master_shares ==
              [i \in 1..alg.n |-> (alg.xs[i] + master_key_int) % SECP256K1_N]
       IN alg' = [alg EXCEPT !.stage = "master", !.xs = master_shares,
                             !.data = SharesPublicKey(master_shares)]
    /\ UNCHANGED <<vault, shares, transactions, handlers, emitted, writes,
                   calls, clients, now, refused, guardians, sessions>>

\* MPCBIP32.derive_hardened_child_distributed: every party adds the tweak
\* HMAC(chain code, 0x00 || its share || index) to its share
DeriveHardenedChild ==
    /\ alg.stage = "master"
    /\ alg.depth < AccountDepth
    /\ \E tweak \in [1..alg.n -> Tweaks] :
          /\ \A i, j \in 1..alg.n :
                alg.xs[i] = alg.xs[j] => tweak[i] = tweak[j]
          /\ LET child_shares ==
                    [i \in 1..alg.n |->
                        (alg.xs[i] + tweak[i]) % SECP256K1_N]
             IN alg' = [alg EXCEPT !.xs = child_shares, !.depth = @ + 1,
                                   !.data = SharesPublicKey(child_shares)]
    /\ UNCHANGED <<vault, shares, transactions, handlers, emitted, writes,
                   calls, clients, now, refused, guardians, sessions>>

NextSetupShares ==
    \/ \E master_key_int \in Tweaks : DeriveMasterKeys(master_key_int)
    \/ DeriveHardenedChild

SpecSetupShares == InitSetupShares /\ [][NextSetupShares]_vars

\* ------------------------------------------------------------------------
\* Non-hardened derivation below the account level: every guardian derives
\* its child share (practical_demo/cli_guardian_client.py
\* _derive_non_hardened_child_share) and the child public key comes from
\* the parent xpub (PublicKeyDerivation.derive_public_child).  The tweak is
\* the HMAC of public data, the same for all parties: any scalar.
\* ------------------------------------------------------------------------
NonHardenedDepth == 2

\* A variant in which every party adds the whole tweak
WholeTweakChildShare(parent_share, tweak, n) ==
    (parent_share + tweak) % SECP256K1_N

\* _derive_non_hardened_child_share: parent share + tweak * n^-1 (mod N)
NonHardenedChildShare(parent_share, tweak, n) ==
    LET tweak_share == (tweak * ModInv(n, SECP256K1_N)) % SECP256K1_N
    IN (parent_share + tweak_share) % SECP256K1_N

\* derive_public_child: from_bytes(parent public key) + G * tweak, encoded;
\* from_bytes raises ValueError for an encoding it does not know
PublicChildRaises(parent_public_key) == ~ValidEncoding(parent_public_key)
DerivePublicChild(parent_public_key, tweak) ==
    ToBytes(Add(Decode(parent_public_key), GTable[tweak]))

\* Account shares of n parties and the public key setup published for them
InitChild ==
    /\ vault = [status |-> "active", coin_type |-> "bitcoin", threshold |-> 2,
                total_guardians |-> 2, guardians_joined |-> 2]
    /\ InitDatabase
    /\ shares = [g \in GuardianIds |-> 0]
    /\ \E n \in 2..MaxParties :
          \E xs \in [1..n -> SetupShares] :
             alg = [NoAlg EXCEPT !.stage = "account", !.n = n, !.xs = xs,
                                 !.data = SharesPublicKey(xs)]

\* One level down (change, then address index): the xpub derivation, then
\* every party's share
DeriveNonHardenedChild(tweak) ==
    /\ alg.stage = "account"
    /\ alg.depth < NonHardenedDepth
    /\ IF PublicChildRaises(alg.data)
       THEN alg' = [alg EXCEPT !.stage = "raised",
                               !.error = "Invalid point encoding"]
       ELSE alg' = [alg EXCEPT
                       !.depth = @ + 1,
                       !.data = DerivePublicChild(alg.data, tweak),
                       !.xs = [i \in 1..alg.n |->
                                  NonHardenedChildShare(alg.xs[i], tweak,
                                                        alg.n)]]
    /\ UNCHANGED <<vault, shares, transactions, handlers, emitted, writes,
                   calls, clients, now, refused, guardians, sessions>>

NextChild == \E tweak \in Scalars : DeriveNonHardenedChild(tweak)

SpecChild == InitChild /\ [][NextChild]_vars

\* ------------------------------------------------------------------------
\* RLP (guardianvault/rlp_encoding.py).  A value is a byte string or a list
\* of values; bytes are the integers 0..255, an encoding is a sequence of
\* them.
\* ------------------------------------------------------------------------
RlpBytes(data) == [list |-> FALSE, bytes |-> data, items |-> <<>>]
RlpList(data) == [list |-> TRUE, bytes |-> <<>>, items |-> data]

\* length.to_bytes((length.bit_length() + 7) // 8, 'big')
RECURSIVE LengthBytes(_)
LengthBytes(length) ==
    IF length = 0 THEN <<>>
    ELSE Append(LengthBytes(length \div 256), length % 256)

\* int.from_bytes(data, 'big')
RECURSIVE IntFromBytes(_)
IntFromBytes(data) ==
    IF data = <<>> THEN 0
    ELSE IntFromBytes(SubSeq(data, 1, Len(data) - 1)) * 256 + data[Len(data)]

\* data[first:last] of Python: 0-based, last excluded, cut at the end
Slice(data, first, last) ==
    SubSeq(data, first + 1, IF last < Len(data) THEN last ELSE Len(data))

\* A variant that keeps the one-byte prefix up to 56 bytes
EncodeBytesShortTo56(data) ==
    LET length == Len(data) IN
    IF length = 1 /\ data[1] < 128 THEN data
    ELSE IF length <= 56 THEN <<128 + length>> \o data
    ELSE <<183 + Len(LengthBytes(length))>> \o LengthBytes(length) \o data

\* encode_bytes
EncodeBytes(data) ==
    LET length == Len(data) IN
    IF length = 1 /\ data[1] < 128 THEN data
    ELSE IF length <= 55 THEN <<128 + length>> \o data
    ELSE <<183 + Len(LengthBytes(length))>> \o LengthBytes(length) \o data

\* encode, encode_list
RECURSIVE RlpEncode(_)
RECURSIVE JoinEncoded(_)
JoinEncoded(items) ==
    IF items = <<>> THEN <<>>
    ELSE RlpEncode(Head(items)) \o JoinEncoded(Tail(items))

EncodeList(data) ==
    LET encoded_items == JoinEncoded(data)
        length == Len(encoded_items) IN
    IF length <= 55 THEN <<192 + length>> \o encoded_items
    ELSE <<247 + Len(LengthBytes(length))>> \o LengthBytes(length)
             \o encoded_items

RlpEncode(data) ==
    IF data.list THEN EncodeList(data.items) ELSE EncodeBytes(data.bytes)

\* decode_with_remainder: the decoded value and the remaining bytes, or
\* ValueError("Cannot decode empty data")
DecodeRaised == [raised |-> TRUE, value |-> RlpBytes(<<>>),
                 remaining |-> <<>>]
Decoded(value, remaining) ==
    [raised |-> FALSE, value |-> value, remaining |-> remaining]

RECURSIVE DecodeWithRemainder(_)
\* the loop "while pos < length" over the payload of a list
RECURSIVE DecodeItems(_, _, _, _)
DecodeItems(list_data, pos, length, result) ==
    IF pos >= length THEN Decoded(RlpList(result), <<>>)
    ELSE LET item == DecodeWithRemainder(Slice(list_data, pos,
                                               Len(list_data)))
         IN IF item.raised THEN DecodeRaised
            ELSE DecodeItems(list_data, length - Len(item.remaining), length,
                             Append(result, item.value))

DecodeWithRemainder(data) ==
    IF data = <<>> THEN DecodeRaised
    ELSE
    LET first_byte == data[1]
        end == Len(data) IN
    IF first_byte <= 127 THEN Decoded(RlpBytes(<<first_byte>>),
                                      Slice(data, 1, end))
    ELSE IF first_byte <= 183
    THEN LET length == first_byte - 128 IN
         IF length = 0 THEN Decoded(RlpBytes(<<>>), Slice(data, 1, end))
         ELSE Decoded(RlpBytes(Slice(data, 1, 1 + length)),
                      Slice(data, 1 + length, end))
    ELSE IF first_byte <= 191
    THEN LET length_of_length == first_byte - 183
             length == IntFromBytes(Slice(data, 1, 1 + length_of_length))
             start == 1 + length_of_length IN
         Decoded(RlpBytes(Slice(data, start, start + length)),
                 Slice(data, start + length, end))
    ELSE IF first_byte <= 247
    THEN LET length == first_byte - 192 IN
         IF length = 0 THEN Decoded(RlpList(<<>>), Slice(data, 1, end))
         ELSE LET list == DecodeItems(Slice(data, 1, 1 + length), 0, length,
                                      <<>>) IN
              IF list.raised THEN DecodeRaised
              ELSE Decoded(list.value, Slice(data, 1 + length, end))
    ELSE LET length_of_length == first_byte - 247
             length == IntFromBytes(Slice(data, 1, 1 + length_of_length))
             start == 1 + length_of_length
             list == DecodeItems(Slice(data, start, start + length), 0,
                                 length, <<>>) IN
         IF list.raised THEN DecodeRaised
         ELSE Decoded(list.value, Slice(data, start + length, end))

\* decode: ValueError for empty data and for data after the value
RlpDecode(data) ==
    LET result == DecodeWithRemainder(data) IN
    IF result.raised \/ result.remaining # <<>> THEN DecodeRaised
    ELSE result

\* The values encoded: byte strings around every branch of encode_bytes
\* (empty, one byte below and from 0x80, 55 and 56 bytes, a length of two
\* bytes) and lists of up to MaxItems items, nested twice
MaxItems == 2
Repeat(byte, length) == [i \in 1..length |-> byte]
RlpStrings ==
    {<<>>, <<0>>, <<127>>, <<128>>, <<255>>, <<1, 200>>, <<192, 0, 183>>,
     Repeat(1, 55), Repeat(128, 56), Repeat(255, 256)}
ListsOf(values) ==
    {RlpList(items) : items \in UNION {[1..k -> values] : k \in 0..MaxItems}}
RlpInnerLists ==
    ListsOf({RlpBytes(data) : data \in {<<>>, <<127>>, <<128>>,
                                        Repeat(1, 55)}})
RlpOuterLists ==
    ListsOf({RlpBytes(<<>>), RlpBytes(Repeat(7, 53)), RlpList(<<>>),
             RlpList(<<RlpBytes(<<128>>)>>),
             RlpList(<<RlpBytes(Repeat(1, 55)), RlpBytes(<<127>>)>>)})
RlpValues ==
    {RlpBytes(data) : data \in RlpStrings} \cup RlpInnerLists
        \cup RlpOuterLists

InitRlp ==
    /\ vault = [status |-> "active", coin_type |-> "bitcoin", threshold |-> 2,
                total_guardians |-> 2, guardians_joined |-> 2]
    /\ InitDatabase
    /\ shares = [g \in GuardianIds |-> 0]
    /\ \E value \in RlpValues :
          alg = [NoAlg EXCEPT !.stage = "value", !.value = value]

\* encode(value)
EncodeValue ==
    /\ alg.stage = "value"
    /\ alg' = [alg EXCEPT !.stage = "encoded", !.data = RlpEncode(alg.value)]
    /\ UNCHANGED <<vault, shares, transactions, handlers, emitted, writes,
                   calls, clients, now, refused, guardians, sessions>>

\* decode(encoded)
DecodeEncoded ==
    /\ alg.stage = "encoded"
    /\ LET result == RlpDecode(alg.data) IN
       IF result.raised
       THEN alg' = [alg EXCEPT !.stage = "raised", !.error = "ValueError"]
       ELSE alg' = [alg EXCEPT !.stage = "decoded",
                               !.decoded = result.value]
    /\ UNCHANGED <<vault, shares, transactions, handlers, emitted, writes,
                   calls, clients, now, refused, guardians, sessions>>

NextRlp == EncodeValue \/ DecodeEncoded

SpecRlp == InitRlp /\ [][NextRlp]_vars

\* ------------------------------------------------------------------------
\* The coordinator signing for an Ethereum vault: create_transaction checks
\* the vault's coin type against the request's, and the signing handlers
\* are the same for both coins.
\* ------------------------------------------------------------------------
InitEthereum ==
    /\ vault = [status |-> "active", coin_type |-> "ethereum", threshold |-> 2,
                total_guardians |-> 2, guardians_joined |-> 2]
    /\ shares \in ShareVectors
    /\ shares["g1"] = 4
    /\ InitDatabase
    /\ alg = NoAlg

SpecEthereum == InitEthereum /\ [][Next]_vars

\* ------------------------------------------------------------------------
\* Sessions opened with any auth data (main.py connect) and the
\* submissions they send for their own guardianId
\* ------------------------------------------------------------------------
\* The ids sessions present: a guardian of the vault and an id no guardian
\* document has.  Each opens at most one new session in a run.
AuthGuardianIds == {"g1", "g3"}

\* connect: vaultId and guardianId of the auth data are stored in the
\* session as they come, provided neither is empty; no collection is read
ConnectAuth(vault_id, guardian_id) ==
    /\ guardian_id \notin sessions.connected
    /\ sessions' = [sessions EXCEPT
                       !.connected = @ \cup {guardian_id},
                       !.vault_id = DictSet(@, guardian_id, vault_id),
                       !.events = @ \cup {<<"guardian:connected",
                                            guardian_id>>}]
    /\ UNCHANGED <<vault, shares, transactions, handlers, emitted, writes,
                   calls, clients, alg, now, refused, guardians>>

NextAuth ==
    \/ \E t \in TxIds, z \in MessageHashes : CreateTransaction(t, z)
    \/ \E g \in AuthGuardianIds : Disconnect(g)
    \/ \E vault_id \in VaultIds, g \in AuthGuardianIds :
          /\ <<"guardian:connected", g>> \notin sessions.events
          /\ ConnectAuth(vault_id, g)
    \/ \E g \in AuthGuardianIds : RemoveGuardian(g)
    \/ \E g \in AuthGuardianIds, t \in TxIds, k \in NonceChoices :
          g \in sessions.connected /\ SigningSubmitRound1(g, g, t, k)
    \/ \E g \in AuthGuardianIds, t \in Created :
          \E s \in Round3Inputs(g, t) :
             g \in sessions.connected /\ SigningSubmitRound3(g, g, t, s)
    \/ \E g \in GuardianIds : HandlerStep(g)

SpecAuth == InitSession /\ [][NextAuth]_vars

\* ------------------------------------------------------------------------
\* Two transactions of one vault signed side by side: submissions,
\* aggregation and cancel for either, their handlers interleaved at every
\* database await
\* ------------------------------------------------------------------------
NextFrame ==
    \/ \E t \in AllTxIds, z \in MessageHashes : CreateTransaction(t, z)
    \/ \E g \in Connected, t \in AllTxIds, k \in NonceChoices :
          AnyRound1(g, t, k)
    \/ \E g \in Connected, t \in Created :
          \E s \in Round3Inputs(g, t) : AnyRound3(g, t, s)
    \/ \E g \in GuardianIds : HandlerStep(g)
    \/ \E t \in AllTxIds : CancelRead(t)
    \/ CancelWrite

SpecFrame == InitSession /\ [][NextFrame]_vars

\* ------------------------------------------------------------------------
\* Properties of the coordinator
\* ------------------------------------------------------------------------
Doc(t) == transactions[t]
Round1Ids(t) == DOMAIN transactions[t].round1_data
Round3Ids(t) == DOMAIN transactions[t].round3_data

\* C1: once a transaction's status is completed, failed or cancelled, no
\* step of any operation changes it.
TerminalStatusIsFinal ==
    [][\A t \in Created :
          Doc(t).status \in TerminalStatuses
             => transactions'[t].status = Doc(t).status]_vars

\* C2: round-2 data exists only when the required round-1 contributions
\* are stored, and round3_data holds a share only when round 2 has been
\* aggregated.
Round2BetweenRound1AndRound3 ==
    \A t \in Created :
       /\ Doc(t).round2_data.present
             => Cardinality(Round1Ids(t)) >= Doc(t).signatures_required
       /\ Round3Ids(t) # {} => Doc(t).round2_data.present

\* Every required guardian has sent its round-1 contribution once, and
\* nothing else was sent to the coordinator.
OnlyRequiredRound1(t) ==
    /\ calls.round1 = Doc(t).signatures_required
    /\ Cardinality(Round1Ids(t)) = Doc(t).signatures_required
    /\ calls.round3 = 0
    /\ calls.admin = 0

\* C3: when the required guardians submit round 1 concurrently, round2_data
\* is written (and the status moved to round 2) at most once and
\* signing:round2_ready is emitted at most once.
Round2HappensOnce ==
    \A t \in Created :
       OnlyRequiredRound1(t)
          => writes[t] <= 1 /\ emitted[t].round2_ready <= 1

\* C4: a completed transaction holds a round-1 contribution and a round-3
\* share of every one of the vault's total_guardians guardians.
CompletedNeedsAllGuardians ==
    \A t \in Created :
       Doc(t).status = "completed"
          => /\ Members(vault.total_guardians) \subseteq Round1Ids(t)
             /\ Members(vault.total_guardians) \subseteq Round3Ids(t)

\* The joint public key Q = (sum of x_i) G of the vault's guardians
JointPublicKey ==
    ToBytes(GTable[SumMod(shares, Members(vault.total_guardians))])

\* The share guardian g computes from the round-2 data of t as published
HonestShare(g, t) ==
    SignRound3(shares[g], Doc(t).message_hash, Doc(t).round2_data.r,
               Doc(t).round2_data.kTotal, vault.total_guardians)

\* Every share stored for t is the one its guardian computes from r and
\* k_total as published and its own x_i.
AllSharesHonest(t) ==
    /\ Doc(t).round2_data.present
    /\ CanSignRound3(Doc(t).round2_data.kTotal, vault.total_guardians)
    /\ \A g \in Round3Ids(t) : Doc(t).round3_data[g] = HonestShare(g, t)

\* The final signature of t is the one round 4 computes from the round-2
\* data and the shares now stored.
SignatureOfStoredShares(t) ==
    /\ Doc(t).final_signature.present
    /\ Doc(t).final_signature = Round4Result(Doc(t))

\* C6: the final signature of a completed transaction, computed from shares
\* that all follow the round-3 formula for the published r and k_total,
\* verifies for z under the joint public key.
CompletedSignatureVerifies ==
    \A t \in Created :
       (/\ Doc(t).status = "completed"
        /\ SignatureOfStoredShares(t)
        /\ AllSharesHonest(t))
          => VerifySignature(JointPublicKey, Doc(t).message_hash,
                             Doc(t).final_signature.r,
                             Doc(t).final_signature.s)

\* C8: every final signature round 4 stored has s <= N // 2.
FinalSignatureLowS ==
    \A t \in Created :
       Doc(t).final_signature.present
          => Doc(t).final_signature.s <= SECP256K1_N \div 2

\* Round 4 stored a signature whose share sum was in the upper half.
FinalSignatureWasFlipped ==
    \E t \in Created :
       /\ Doc(t).final_signature.present
       /\ SumMod(Doc(t).round3_data, Round3Ids(t)) > SECP256K1_N \div 2
       /\ Doc(t).final_signature.s
             = SECP256K1_N - SumMod(Doc(t).round3_data, Round3Ids(t))

\* The share values of g that agree with what the coordinator holds for t:
\* message_hash, r and k_total of round2_data, and g's round-3 share.
SharesConsistentWithView(g, t) ==
    { x \in Scalars :
         SignRound3(x, Doc(t).message_hash, Doc(t).round2_data.r,
                    Doc(t).round2_data.kTotal, vault.total_guardians)
            = Doc(t).round3_data[g] }

\* C9: what the coordinator persists for a transaction agrees with more
\* than one value of the share of each guardian that followed the protocol.
CoordinatorCannotTellShare ==
    \A t \in Created :
       AllSharesHonest(t)
          => \A g \in Round3Ids(t) :
                Cardinality(SharesConsistentWithView(g, t)) > 1

\* C10: round2_data is populated only while round1_data holds contributions
\* of at least signatures_required distinct guardians.
Round2NeedsRequiredRound1 ==
    \A t \in Created :
       Doc(t).round2_data.present
          => Cardinality(Round1Ids(t)) >= Doc(t).signatures_required

\* Round 2 was aggregated for a transaction to which a guardian sent its
\* round-1 contribution more than once.
Round2AfterResubmission ==
    \E t \in Created :
       /\ Doc(t).round2_data.present
       /\ calls.round1 > Cardinality(Round1Ids(t))

\* ------------------------------------------------------------------------
\* Properties of the protocol run by honest guardians, and of the arithmetic
\* ------------------------------------------------------------------------
\* C5: when all guardians of the vault stay connected and follow the
\* protocol, every created transaction is eventually completed and every
\* guardian has handled the signing:complete broadcast.
HonestRunCompletes ==
    \A t \in TxIds :
       (t \in Created)
          ~> (/\ t \in Created
              /\ Doc(t).status = "completed"
              /\ \A g \in Members(vault.total_guardians) :
                    clients[g].signing_complete)

\* C7: the shares s_i = k^-1 (z n^-1 + r x_i) of n parties sum, modulo N, to
\* k^-1 (z + r (x_1 + ... + x_n)).
ShareSumIsSignature ==
    alg.stage = "combined"
       => alg.sum = (ModInv(alg.k, SECP256K1_N)
                        * (alg.z + alg.r * SumSeq(alg.xs))) % SECP256K1_N

\* Several parties combined their shares for a digest and an r that are not
\* multiples of the group order.
SeveralPartiesCombined ==
    /\ alg.stage = "combined"
    /\ alg.n >= 2
    /\ alg.z % SECP256K1_N # 0
    /\ alg.r # 0
    /\ SumSeq(alg.xs) # 0

CancelOnlyFromPendingOrRound1 ==
    [][\A t \in Created :
          (transactions'[t].status = "cancelled"
              /\ transactions[t].status # "cancelled")
             => transactions[t].status \in {"pending", "signing_round1"}]_vars

\* C13: a transaction that is not completed, failed or cancelled when the
\* clock has passed its timeout_at is eventually failed (the error message
\* it then carries is left open here).
TimedOutEventuallyFailed ==
    \A t \in TxIds :
       (/\ t \in Created
        /\ Doc(t).status \notin TerminalStatuses
        /\ now > Doc(t).timeout_at)
          ~> (/\ t \in Created
              /\ Doc(t).status = "failed")

\* C14: a transaction is pending when it is created; from its first round-1
\* submission until the last required one arrives it is in signing_round1;
\* and its status moves only pending -> signing_round1 -> signing_round2 ->
\* signing_round3 -> completed (or to failed / cancelled).
LifecycleInOrder ==
    [][\A t \in TxIds :
          /\ (t \notin Created /\ t \in Created')
                => Doc(t)'.status = "pending"
          /\ (/\ t \in Created'
              /\ Round1Ids(t)' # {}
              /\ Cardinality(Round1Ids(t)') < Doc(t)'.signatures_required
              /\ ~Doc(t)'.round2_data.present
              /\ Doc(t)'.status \notin TerminalStatuses)
                => Doc(t)'.status = "signing_round1"
          /\ (/\ t \in Created
              /\ Doc(t)'.status # Doc(t).status
              /\ Doc(t)'.status \notin {"failed", "cancelled"})
                => <<Doc(t).status, Doc(t)'.status>> \in
                      { <<"pending", "signing_round1">>,
                        <<"signing_round1", "signing_round2">>,
                        <<"signing_round2", "signing_round3">>,
                        <<"signing_round3", "completed">> }]_vars

\* An R point that cannot be decoded or is not on the curve, or R points
\* that add up to the point at infinity
BadRound1(round1_data) ==
    IF \E g \in DOMAIN round1_data :
          \/ ~ValidEncoding(round1_data[g].r_point)
          \/ ~OnCurve(FromBytes(round1_data[g].r_point))
    THEN TRUE
    ELSE SumPoints([g \in DOMAIN round1_data |->
                       FromBytes(round1_data[g].r_point)],
                   DOMAIN round1_data).inf

\* C15: when round 1 is complete and a stored R point is not a valid point
\* of the curve, or the R points add up to the point at infinity, round 2
\* fails: the handler takes execute_round2's failure path, which sets the
\* status to failed with an error message naming round 2 and stores no
\* round2_data.
InvalidRound1FailsRound2 ==
    [][\A g \in GuardianIds :
          LET h == handlers[g]
              doc == transactions[h.tx] IN
          /\ (/\ h.op = "round1" /\ h.pc = "count"
              /\ handlers'[g] # h
              /\ Round1Complete(Cardinality(DOMAIN doc.round1_data),
                                doc.signatures_required)
              /\ BadRound1(doc.round1_data))
                => handlers'[g].pc = "round2_failed"
          /\ (/\ h.op = "round1" /\ h.pc = "round2_failed"
              /\ handlers'[g] # h)
                => /\ Doc(h.tx)'.status = "failed"
                   /\ Doc(h.tx)'.error_message = "Round 2 failed"
                   /\ Doc(h.tx)'.round2_data = doc.round2_data]_vars

\* C16: round 4 rejects an aggregate s equal to zero, so no transaction
\* ever holds a final signature whose s is 0.
ZeroSignatureRejected ==
    \A t \in Created :
       Doc(t).final_signature.present => Doc(t).final_signature.s # 0

\* C17: from_bytes returns a point only when its coordinates satisfy
\* y^2 = x^3 + 7 mod p; every other encoding, compressed or uncompressed,
\* is rejected with an error.
OffCurveEncodingRejected ==
    alg.stage = "decoded" => OnCurve(alg.point)

\* C18: once round2_data is stored, a session asking for round-2 data for
\* its own guardian id gets success with r and k_total as stored (and
\* num_parties and the message hash); before that it gets an error.
Round2DataServedAfterRound2 ==
    \A t \in Created :
       LET answer == SigningGetRound2Data(Doc(t)) IN
       /\ answer.success <=> Doc(t).round2_data.present
       /\ answer.success => /\ answer.r = Doc(t).round2_data.r
                            /\ answer.k_total = Doc(t).round2_data.kTotal

\* C19: a session asking for the final signature for its own guardian id
\* gets success, with the stored r and s, exactly when the transaction's
\* status is completed.
FinalSignatureServedIffCompleted ==
    \A t \in Created :
       LET answer == SigningGetFinalSignature(Doc(t)) IN
       /\ answer.success <=> Doc(t).status = "completed"
       /\ answer.success => /\ answer.r = Doc(t).final_signature.r
                            /\ answer.s = Doc(t).final_signature.s

NoSigningUnlessVaultActive ==
    [][vault.status # "active" =>
          \A t \in Created :
             /\ Doc(t)'.round1_data = Doc(t).round1_data
             /\ Doc(t)'.round3_data = Doc(t).round3_data
             /\ Doc(t)'.status \in {"signing_round2", "signing_round3",
                                    "completed"}
                   => Doc(t)'.status = Doc(t).status]_vars

\* C22: a step that makes the vault active starts from status setup with
\* guardians_joined equal to total_guardians, whichever request takes it.
ActiveOnlyFromFullSetup ==
    [][(vault'.status = "active" /\ vault.status # "active")
          => /\ vault.status = "setup"
             /\ vault.guardians_joined = vault.total_guardians]_vars

\* C23: every vault document has threshold equal to total_guardians.
ThresholdIsTotal ==
    vault.status # "none" => vault.threshold = vault.total_guardians

\* C24: the guardian documents of the vault have pairwise different
\* share_ids, each within 1..total_guardians.
ShareIdsUniqueInRange ==
    \A g \in DOMAIN guardians :
       /\ guardians[g].share_id \in 1 .. vault.total_guardians
       /\ \A h \in DOMAIN guardians \ {g} :
             guardians[h].share_id # guardians[g].share_id

\* C25: an invitation code is accepted once: a guardian becomes active
\* only from status invited, so no join after the first changes the
\* document.
InvitationAcceptedOnce ==
    [][\A g \in DOMAIN guardians :
          (guardians'[g].status = "active" /\ guardians[g].status # "active")
             => guardians[g].status = "invited"]_vars

\* C26: the step that serves a guardian's disconnect leaves every
\* transaction document (status, round data, counters) as it was.
DisconnectKeepsTransactions ==
    [][\A g \in GuardianIds :
          (g \in sessions.connected /\ g \notin sessions'.connected)
             => transactions' = transactions]_vars

\* A guardian disconnected after its round-1 contribution, in the middle of
\* a signing that then went on to round 3.
DisconnectedDuringSigning ==
    \E t \in Created : \E g \in Round1Ids(t) :
       /\ g \notin sessions.connected
       /\ <<"guardian:disconnected", g>> \in sessions.events
       /\ Doc(t).status = "signing_round3"

\* C27: a Bitcoin request whose sender address is P2TR is refused, so no
\* transaction document has a P2TR sender.
NoTransactionFromP2TR ==
    \A t \in Created : Doc(t).sender_address # "p2tr"

\* C28: the shares held after generation and after every derivation down to
\* the account level sum, modulo the group order, to the private key of the
\* public key published with them (verify_account_shares, verify_shares).
AccountSharesSumToXpub ==
    alg.stage \in {"shares", "master"}
       => ToBytes(PointMul(Generator, SumSeq(alg.xs))) = alg.data

\* Account-level shares that differ from party to party, with a public key
\* that is a point of the curve
\* An account public key that is the point at infinity is reached too
AccountKeyAtInfinity == alg.depth = AccountDepth /\ alg.data = <<0>>

AccountSharesDerived ==
    /\ alg.stage = "master" /\ alg.depth = AccountDepth
    /\ \E i, j \in 1..alg.n : alg.xs[i] # alg.xs[j]
    /\ alg.data # <<0>>

\* C29: at every non-hardened level, for every number of parties and every
\* tweak, the child public key derived from the parent xpub is G times the
\* sum, modulo the group order, of the child shares the parties derived
\* with the T/n rule.
DerivedChildKeyMatches ==
    (alg.stage = "account" /\ alg.depth > 0)
       => ToBytes(PointMul(Generator, SumSeq(alg.xs))) = alg.data

\* Address-level shares of three parties, not all equal, under a child key
\* that is a point of the curve
AddressSharesDerived ==
    /\ alg.stage = "account" /\ alg.depth = NonHardenedDepth
    /\ alg.n = 3
    /\ \E i, j \in 1..alg.n : alg.xs[i] # alg.xs[j]
    /\ alg.data # <<0>>

\* A parent key at infinity, encoded 0x00, is one derive_public_child does
\* not decode: no child key is derived from it
ParentKeyNotDecoded == alg.stage = "raised" /\ alg.data = <<0>>

\* C30: decode(encode(v)) returns v for every byte string and every nested
\* list of byte strings v.
RlpRoundTrip ==
    /\ alg.stage # "raised"
    /\ alg.stage = "decoded" => alg.decoded = alg.value

\* A list that holds a list and has a payload of 56 bytes or more has been
\* encoded in the long form and decoded
LongNestedListDecoded ==
    /\ alg.stage = "decoded"
    /\ alg.value.list
    /\ \E i \in 1..Len(alg.value.items) : alg.value.items[i].list
    /\ alg.data[1] > 247

\* C31: the final signature of a completed Ethereum transaction carries a
\* recovery id v.
EthereumSignatureHasRecoveryId ==
    \A t \in Created :
       (vault.coin_type = "ethereum" /\ Doc(t).status = "completed"
           /\ Doc(t).final_signature.present)
          => "v" \in FinalSignatureKeys

\* C32: once round2_data is stored for a transaction, no step changes it
\* (its r and k stay as first written).
Round2DataNeverChanges ==
    [][\A t \in Created :
          transactions[t].round2_data.present
             => /\ transactions'[t].round2_data.r
                      = transactions[t].round2_data.r
                /\ transactions'[t].round2_data.kTotal
                      = transactions[t].round2_data.kTotal]_vars

\* C33: no step takes a transaction from one of the statuses pending,
\* signing_round1, signing_round2, signing_round3, completed to an earlier
\* one of them.
StatusRank(status) ==
    CASE status = "pending" -> 0
      [] status = "signing_round1" -> 1
      [] status = "signing_round2" -> 2
      [] status = "signing_round3" -> 3
      [] status = "completed" -> 4
      [] OTHER -> 5

StatusNeverMovesBack ==
    [][\A t \in Created :
          StatusRank(transactions'[t].status) < 5
             => StatusRank(transactions'[t].status)
                   >= StatusRank(transactions[t].status)]_vars

\* C34: signatures_received is the number of guardians in round3_data and
\* never exceeds signatures_required.
SignaturesReceivedCountsGuardians ==
    \A t \in Created :
       /\ Doc(t).signatures_received = Cardinality(DOMAIN Doc(t).round3_data)
       /\ Doc(t).signatures_received <= Doc(t).signatures_required

\* C35: a transaction is completed exactly when its final_signature is
\* present.
CompletedIffFinalSignature ==
    \A t \in Created :
       (Doc(t).status = "completed") <=> Doc(t).final_signature.present

\* C36: a contribution is taken (a round-1 or round-3 handler starts for
\* guardian g on transaction t) only from a session authenticated for the
\* transaction's vault, whose guardian has a record in that vault with
\* status active.
ContributorsAreActiveGuardians ==
    [][\A g \in GuardianIds :
          (handlers[g].op = "idle" /\ handlers'[g].op \in {"round1", "round3"})
             => /\ g \in DOMAIN guardians
                /\ guardians[g].status = "active"
                /\ guardians[g].vault_id
                      = transactions[handlers'[g].tx].vault_id
                /\ sessions.vault_id[g]
                      = transactions[handlers'[g].tx].vault_id]_vars

\* C37: signing:round2_ready is broadcast for a transaction only when its
\* round2_data is stored, and signing:complete only when its status is
\* completed.
BroadcastOnlyAfterSuccess ==
    [][\A t \in TxIds :
          /\ emitted'[t].round2_ready > emitted[t].round2_ready
                => transactions[t].round2_data.present
          /\ emitted'[t].complete > emitted[t].complete
                => transactions[t].status = "completed"]_vars

\* C38: a transaction document changes only in a step of a request made
\* for that transaction (a submission for it, a step of a handler working
\* on it, its cancel); no such step changes another transaction.
OtherTransactionsUntouched ==
    [][\A t \in Created :
          transactions'[t] # transactions[t]
             => /\ \E c \in Callers :
                      /\ handlers'[c] # handlers[c]
                      /\ \/ handlers[c].op # "idle" /\ handlers[c].tx = t
                         \/ handlers[c].op = "idle" /\ handlers'[c].tx = t
                /\ \A u \in Created \ {t} :
                      transactions'[u] = transactions[u]]_vars

\* Handlers of two guardians at work on different transactions, each of
\* which already holds a round-1 contribution
TwoTransactionsInterleaved ==
    /\ handlers["g1"].op # "idle" /\ handlers["g2"].op # "idle"
    /\ handlers["g1"].tx # handlers["g2"].tx
    /\ \A t \in AllTxIds :
          t \in Created /\ DOMAIN Doc(t).round1_data # {}


\* ------------------------------------------------------------------------
\* Inviting, joining and activating only (routers/guardians.py
\* invite_guardian, join_as_guardian; routers/vaults.py activate_vault)
\* ------------------------------------------------------------------------
NextActivate ==
    \/ \E request \in VaultRequests, coin_type \in CoinTypes :
          CreateVault(request[1], request[2], coin_type)
    \/ ActivateVault
    \/ \E c \in HttpClients : InviteRead(c) \/ InviteInsert(c) \/ InviteUpdate(c)
    \/ \E c \in HttpClients, code \in GuardianIds : JoinRead(c, code)
    \/ \E c \in HttpClients : JoinUpdate(c)

SpecActivate == InitSetup /\ [][NextActivate]_vars

\* Guardian documents of the vault whose status is active
ActiveGuardians ==
    {g \in DOMAIN guardians : guardians[g].vault_id = VaultId
                                 /\ guardians[g].status = "active"}

\* C39: a step that makes the vault active is taken only when
\* total_guardians guardians of the vault have status active, that is, have
\* accepted their invitations
VaultActiveOnlyAfterAllAccepted ==
    [][(vault.status # "active" /\ vault'.status = "active")
          => Cardinality(ActiveGuardians) >= vault.total_guardians]_vars


\* ------------------------------------------------------------------------
\* The command-line guardian client (practical_demo/cli_guardian_client.py)
\* against the coordinator, two transactions of one vault.  socket.io runs
\* each event handler as a task of its own, in the order the broadcasts
\* arrive.
\* ------------------------------------------------------------------------
\* The place of broadcast <<event, t>> among those client g handled, 0 when
\* it has not handled it
HandledAt(g, event, t) ==
    LET h == clients[g].handled
        at == {i \in 1..Len(h) : h[i] = <<event, t>>} IN
    IF at = {} THEN 0 ELSE CHOOSE i \in at : \A j \in at : i <= j

\* on_new_transaction -> participate_in_signing -> submit_round1:
\* current_transaction = transaction_id, a nonce share is drawn and stored
\* in self.nonce_share, and signing_submit_round1 is sent
CliOnNewTransaction(g, t, k) ==
    /\ emitted[t].new_transaction > 0
    /\ HandledAt(g, "new_transaction", t) = 0
    /\ SubmitRound1(g, t, k, ToBytes(GTable[k]))
    /\ clients' = [clients EXCEPT ![g].current_transaction = t,
                                  ![g].nonce_share = k,
                                  ![g].handled = Append(@, <<"new_transaction", t>>)]
    /\ UNCHANGED calls

\* on_round2_ready: submit_round3(transaction_id) is called only if
\* self.current_transaction == transaction_id.  submit_round3 asks for the
\* round-2 data and returns when the answer is not a success; otherwise it
\* computes its share and sends signing_submit_round3.
CliOnRound2Ready(g, t) ==
    LET response == SigningGetRound2Data(transactions[t])
        handled == [clients EXCEPT ![g].handled =
                       Append(@, <<"round2_ready", t>>)] IN
    /\ t \in Created
    /\ emitted[t].round2_ready > 0
    /\ HandledAt(g, "round2_ready", t) = 0
    /\ handlers[g].op = "idle"
    /\ IF clients[g].current_transaction = t
       THEN /\ clients' = [handled EXCEPT ![g].round3_called = @ \cup {t}]
            /\ IF response.success
               THEN SubmitRound3(g, t, SignRound3(shares[g],
                                                  transactions[t].message_hash,
                                                  response.r, response.k_total,
                                                  vault.total_guardians))
               ELSE UNCHANGED <<vault, shares, transactions, handlers,
                                emitted, writes, alg, now, refused,
                                guardians, sessions>>
       ELSE /\ clients' = handled
            /\ UNCHANGED <<vault, shares, transactions, handlers, emitted,
                           writes, alg, now, refused, guardians, sessions>>
    /\ UNCHANGED calls

\* No client reaches signing_submit_round3 (the answer to
\* signing_get_round2_data is never a success), so signing:complete is never
\* broadcast and on_signing_complete never runs.
NextCli ==
    \/ \E t \in AllTxIds, z \in MessageHashes : CreateTransaction(t, z)
    \/ \E g \in Connected, t \in AllTxIds, k \in LiveNonces :
          CliOnNewTransaction(g, t, k)
    \/ \E g \in GuardianIds :
          \/ Round1Count(g) \/ Round2Write(g) \/ StartSigningRound3(g)
          \/ Round1Emit(g)
    \/ \E g \in Connected, t \in AllTxIds : CliOnRound2Ready(g, t)

SpecCli == InitSession /\ [][NextCli]_vars

\* C40: a client that ran round 1 for transaction t, then handled the
\* new-transaction notification of another transaction u, and now handles
\* t's round2-ready notification, calls submit_round3 for t
Round3AfterSecondNotification ==
    [][\A g \in Connected, t \in AllTxIds, u \in AllTxIds :
          (/\ HandledAt(g, "new_transaction", t) > 0
           /\ HandledAt(g, "new_transaction", u)
                 > HandledAt(g, "new_transaction", t)
           /\ HandledAt(g, "round2_ready", t) = 0
           /\ clients'[g].handled
                 = Append(clients[g].handled, <<"round2_ready", t>>))
          => t \in clients'[g].round3_called]_vars

====
